---- MODULE Spec2Model ----
(***************************************************************************)
(* Model of the OpenLibrary resolution core of book-extraction             *)
(* (src/enrich_with_openlibrary.py): the date normaliser _parse_edtf_date, *)
(* the work matcher fetch_and_filter_works, the earliest-work selector     *)
(* find_work_keys_with_earliest_publication_year and the earliest-edition  *)
(* selector find_edition_with_earliest_publication.                        *)
(*                                                                         *)
(* Text is a sequence of one-character strings, so that lower(), the       *)
(* regular expressions and the date parser work on characters.  JSON       *)
(* values are tagged records: an absent key, null, text, a number, a list. *)
(***************************************************************************)
EXTENDS Integers, Sequences, FiniteSets, TLC

VARIABLES
    pc,                 \* which call is pending or finished
    today,              \* the clock: datetime.now() read by dateutil's default
    edtf_date,          \* argument of _parse_edtf_date
    parsed,             \* outcome of _parse_edtf_date
    editions,           \* argument of find_edition_with_earliest_publication
    earliest_editions,  \* its bucket when the scan loop ends
    edition_result,     \* its outcome
    works,              \* argument of find_work_keys_with_earliest_publication_year
    work_keys,          \* its outcome
    query,              \* (title, author) given to fetch_and_filter_works
    catalog,            \* what the catalog answers: the search response and the authors
    works_filtered,     \* outcome of fetch_and_filter_works
    openlibrary,        \* what the endpoints of the catalog answer
    name_refs,          \* author_keys given to _fetch_all_author_names
    names_found,        \* its outcome
    edition_call,       \* arguments of fetch_all_editions: work_key, max_limit
    fetched,            \* its outcome
    calls,              \* the requests sent to the catalog, in order
    metadata,           \* the entry given to enrich_with_openlibrary
    resolution,         \* the local variables of enrich_with_openlibrary at its return
    namespace,          \* the names bound in the module of main
    input_file,         \* the lines of the input file
    output_file,        \* the lines of the output file
    main_run            \* the local variables of main

\* the state of the calls of single functions
functionVars == <<today, edtf_date, parsed, editions, earliest_editions,
                  edition_result, works, work_keys, query, catalog, works_filtered>>

\* the state of the calls that go through the catalog's endpoints
pipelineVars == <<openlibrary, name_refs, names_found, edition_call, fetched, calls>>

\* the state of the resolution of one entry and of the driver
driverVars == <<metadata, resolution, namespace, input_file, output_file, main_run>>

vars == <<pc, functionVars, pipelineVars, driverVars>>

(***************************************************************************)
(* Values                                                                  *)
(***************************************************************************)
\* Python's None as a returned value
NoneVal == [none |-> TRUE]

\* a key that the JSON object does not have
Absent == [t |-> "absent"]

\* JSON null
Null == [t |-> "null"]

Str(s) == [t |-> "str", v |-> s]

Num(n) == [t |-> "num", v |-> n]

Lst(l) == [t |-> "list", v |-> l]

\* a variable that the running specification does not use
Unused == [unused |-> TRUE]

\* a call that has not returned yet
Pending == [pending |-> TRUE]

FunctionsUnused ==
    /\ today = Unused /\ edtf_date = Unused /\ parsed = Unused
    /\ editions = Unused /\ earliest_editions = Unused /\ edition_result = Unused
    /\ works = Unused /\ work_keys = Unused
    /\ query = Unused /\ catalog = Unused /\ works_filtered = Unused

PipelineUnused ==
    /\ openlibrary = Unused /\ name_refs = Unused /\ names_found = Unused
    /\ edition_call = Unused /\ fetched = Unused /\ calls = Unused

DriverUnused ==
    /\ metadata = Unused /\ resolution = Unused /\ namespace = Unused
    /\ input_file = Unused /\ output_file = Unused /\ main_run = Unused

Returned(x) == [kind |-> "return", value |-> x]

Raised(e) == [kind |-> "raise", exc |-> e]

MkDate(y, m, d) == [year |-> y, month |-> m, day |-> d]

Min(a, b) == IF a <= b THEN a ELSE b

(***************************************************************************)
(* Characters                                                              *)
(***************************************************************************)
Digits == {"0", "1", "2", "3", "4", "5", "6", "7", "8", "9"}

DigitVal(c) ==
    CASE c = "0" -> 0 [] c = "1" -> 1 [] c = "2" -> 2 [] c = "3" -> 3
      [] c = "4" -> 4 [] c = "5" -> 5 [] c = "6" -> 6 [] c = "7" -> 7
      [] c = "8" -> 8 [] c = "9" -> 9

UpperLetters == {"A", "B", "J", "T", "H"}

LowerLetters ==
    {"a", "b", "c", "d", "e", "h", "j", "l", "m", "n", "o", "r", "t", "u", "x", "y"}

Letters == UpperLetters \cup LowerLetters

\* str.lower() on one character
LowerChar(c) ==
    CASE c = "A" -> "a" [] c = "B" -> "b" [] c = "J" -> "j"
      [] c = "T" -> "t" [] c = "H" -> "h" [] OTHER -> c

IsSpace(c) == c = " "

IsDigit(c) == c \in Digits

IsAlpha(c) == c \in Letters

\* \w of the regular expressions
IsWordChar(c) == IsDigit(c) \/ IsAlpha(c)

\* str.lower()
Lower(s) == [i \in DOMAIN s |-> LowerChar(s[i])]

AllDigits(s) == \A i \in DOMAIN s : IsDigit(s[i])

RECURSIVE ToInt(_)
\* int() of a text of digits
ToInt(s) ==
    IF Len(s) = 0 THEN 0
    ELSE 10 * ToInt(SubSeq(s, 1, Len(s) - 1)) + DigitVal(s[Len(s)])

(***************************************************************************)
(* Calendar: datetime.date                                                 *)
(***************************************************************************)
\* datetime.MINYEAR
MINYEAR == 1

\* datetime.MAXYEAR
MAXYEAR == 9999

IsLeap(y) == (y % 4 = 0) /\ ((y % 100 # 0) \/ (y % 400 = 0))

\* calendar.monthrange(y, m)[1]
DaysInMonth(y, m) ==
    IF m = 2 THEN (IF IsLeap(y) THEN 29 ELSE 28)
    ELSE IF m \in {4, 6, 9, 11} THEN 30 ELSE 31

\* date(y, m, d) succeeds; otherwise it raises ValueError
ValidDate(y, m, d) ==
    /\ y >= MINYEAR /\ y <= MAXYEAR
    /\ m >= 1 /\ m <= 12
    /\ d >= 1 /\ d <= DaysInMonth(y, m)

\* date.__lt__: by year, then month, then day
DateLess(a, b) ==
    \/ a.year < b.year
    \/ a.year = b.year /\ a.month < b.month
    \/ a.year = b.year /\ a.month = b.month /\ a.day < b.day

(***************************************************************************)
(* The two regular expressions of _parse_edtf_date                         *)
(***************************************************************************)
RECURSIVE LStrip(_)
LStrip(s) == IF Len(s) > 0 /\ IsSpace(s[1]) THEN LStrip(Tail(s)) ELSE s

RECURSIVE RStrip(_)
RStrip(s) ==
    IF Len(s) > 0 /\ IsSpace(s[Len(s)]) THEN RStrip(SubSeq(s, 1, Len(s) - 1)) ELSE s

\* YearOnlyMatch without the \s* on either side
YearOnlyMatchNoBlanks(s) == IF Len(s) = 4 /\ AllDigits(s) THEN s ELSE <<>>

\* re.match(r"^\s*(\d{4})\s*$", s): group(1), or <<>> when there is no match
YearOnlyMatch(s) ==
    LET core == RStrip(LStrip(s))
    IN  IF Len(core) = 4 /\ AllDigits(core) THEN core ELSE <<>>

\* \b(1\d{3}|20\d{2})\b matches at position p of s
YearAt(s, p) ==
    /\ p + 3 <= Len(s)
    /\ \A k \in p..(p + 3) : IsDigit(s[k])
    /\ (s[p] = "1" \/ (s[p] = "2" /\ s[p + 1] = "0"))
    /\ (p = 1 \/ ~IsWordChar(s[p - 1]))
    /\ (p + 4 > Len(s) \/ ~IsWordChar(s[p + 4]))

\* re.search(r"\b(1\d{3}|20\d{2})\b", s): group(1) of the leftmost match, or <<>>
YearSearch(s) ==
    LET hits == {p \in 1..Len(s) : YearAt(s, p)}
    IN  IF hits = {} THEN <<>>
        ELSE LET p == CHOOSE q \in hits : \A r \in hits : q <= r
             IN  SubSeq(s, p, p + 3)

(***************************************************************************)
(* dateutil.parser.parse(text, fuzzy=True), as far as the texts of         *)
(* DateTexts go: tokens are runs of digits (at most five), runs of         *)
(* letters, single blanks and single other characters; no time of day, no  *)
(* weekday, no am/pm after a number, no time zone.                         *)
(***************************************************************************)
\* the end (exclusive) of the run of digits that starts at i
DigitRunEnd(s, i) ==
    CHOOSE j \in (i + 1)..(Len(s) + 1) :
        /\ \A k \in i..(j - 1) : IsDigit(s[k])
        /\ (j = Len(s) + 1 \/ ~IsDigit(s[j]))

\* the end (exclusive) of the run of letters that starts at i
AlphaRunEnd(s, i) ==
    CHOOSE j \in (i + 1)..(Len(s) + 1) :
        /\ \A k \in i..(j - 1) : IsAlpha(s[k])
        /\ (j = Len(s) + 1 \/ ~IsAlpha(s[j]))

RECURSIVE TimelexFrom(_, _)
TimelexFrom(s, i) ==
    IF i > Len(s) THEN <<>>
    ELSE IF IsDigit(s[i])
         THEN <<SubSeq(s, i, DigitRunEnd(s, i) - 1)>> \o TimelexFrom(s, DigitRunEnd(s, i))
    ELSE IF IsAlpha(s[i])
         THEN <<SubSeq(s, i, AlphaRunEnd(s, i) - 1)>> \o TimelexFrom(s, AlphaRunEnd(s, i))
    ELSE <<<<s[i]>>>> \o TimelexFrom(s, i + 1)

\* _timelex.split
Timelex(s) == TimelexFrom(s, 1)

\* parserinfo.MONTHS: the month of a word, 0 when it is no month name
MonthOf(w) ==
    LET lw == Lower(w)
    IN  CASE lw \in {<<"j", "a", "n">>, <<"j", "a", "n", "u", "a", "r", "y">>} -> 1
          [] lw \in {<<"j", "u", "n">>, <<"j", "u", "n", "e">>} -> 6
          [] lw \in {<<"j", "u", "l">>, <<"j", "u", "l", "y">>} -> 7
          [] lw \in {<<"o", "c", "t">>, <<"o", "c", "t", "o", "b", "e", "r">>} -> 10
          [] lw \in {<<"d", "e", "c">>, <<"d", "e", "c", "e", "m", "b", "e", "r">>} -> 12
          [] OTHER -> 0

IsNumTok(t) == Len(t) > 0 /\ AllDigits(t)

\* parserinfo.jump, for the one-character tokens
IsJump(t) == t \in {<<" ">>, <<"-">>, <<"/">>, <<".">>, <<",">>, <<";">>, <<"'">>}

IsDateSep(t) == t \in {<<"-">>, <<"/">>, <<".">>}

\* the _result and _ymd of one parse: indexes are 1-based and 0 stands for None,
\* hour and minute are -1 for None
ParseStart ==
    [ymd |-> <<>>, ystridx |-> 0, mstridx |-> 0, century |-> FALSE,
     hour |-> -1, minute |-> -1, fail |-> FALSE]

\* _ymd.append(val, label); long: a text of more than two digits or a number over 100
YmdAppend(st, val, long, label) ==
    LET lab == IF long THEN "Y" ELSE label
        n   == Len(st.ymd) + 1
    IN  IF st.fail THEN st
        ELSE IF lab = "M" /\ st.mstridx # 0 THEN [st EXCEPT !.fail = TRUE]
        ELSE IF lab = "Y" /\ st.ystridx # 0 THEN [st EXCEPT !.fail = TRUE]
        ELSE [st EXCEPT !.ymd = Append(@, val),
                        !.century = @ \/ long,
                        !.mstridx = IF lab = "M" THEN n ELSE @,
                        !.ystridx = IF lab = "Y" THEN n ELSE @]

\* _ymd.could_be_day (no day is ever labelled)
CouldBeDay(st, value) ==
    IF st.mstridx = 0 THEN value >= 1 /\ value <= 31
    ELSE IF st.ystridx = 0
         THEN value >= 1 /\ value <= DaysInMonth(2000, st.ymd[st.mstridx])
    ELSE value >= 1 /\ value <= DaysInMonth(st.ymd[st.ystridx], st.ymd[st.mstridx])

\* a text member of a separated date: a number, or else a month name
AppendMember(st, t) ==
    IF MonthOf(t) # 0 THEN YmdAppend(st, MonthOf(t), FALSE, "M")
    ELSE IF IsNumTok(t) THEN YmdAppend(st, ToInt(t), Len(t) > 2, "")
    ELSE [st EXCEPT !.fail = TRUE]

\* the second member of a separated date, after state s1
SecondMember(s1, t) ==
    IF IsNumTok(t) THEN YmdAppend(s1, ToInt(t), Len(t) > 2, "")
    ELSE IF MonthOf(t) # 0 THEN YmdAppend(s1, MonthOf(t), FALSE, "M")
    ELSE [s1 EXCEPT !.fail = TRUE]

\* the third member, when the same separator follows the second one
ThirdMember(l, i, s2) ==
    IF i + 3 <= Len(l) /\ l[i + 3] = l[i + 1]
    THEN IF i + 4 <= Len(l)
         THEN <<AppendMember(s2, l[i + 4]), i + 4>>
         ELSE <<[s2 EXCEPT !.fail = TRUE], i + 4>>
    ELSE <<s2, i + 2>>

\* a number followed by a date separator; s1 is the state with the number appended
SeparatedDate(l, i, s1) ==
    IF i + 2 <= Len(l) /\ ~IsJump(l[i + 2])
    THEN ThirdMember(l, i, SecondMember(s1, l[i + 2]))
    ELSE <<s1, i + 1>>

\* parser._parse_numeric_token at token i: <<state, index of the last token used>>
ParseNumericToken(l, i, st) ==
    IF Len(st.ymd) = 3 /\ Len(l[i]) \in {2, 4} /\ st.hour = -1
    THEN <<[st EXCEPT !.hour = ToInt(SubSeq(l[i], 1, 2)),
                      !.minute = IF Len(l[i]) = 4 THEN ToInt(SubSeq(l[i], 3, 4)) ELSE @], i>>
    ELSE IF i + 1 <= Len(l) /\ IsDateSep(l[i + 1])
    THEN SeparatedDate(l, i, YmdAppend(st, ToInt(l[i]), Len(l[i]) > 2, ""))
    ELSE IF i + 1 > Len(l) \/ IsJump(l[i + 1])
    THEN <<YmdAppend(st, ToInt(l[i]), ToInt(l[i]) > 100, ""), i + 1>>
    ELSE IF CouldBeDay(st, ToInt(l[i]))
    THEN <<YmdAppend(st, ToInt(l[i]), ToInt(l[i]) > 100, ""), i>>
    ELSE <<st, i>>

\* month name, separator, number: the member after the second separator
MonthThirdMember(l, i, s2) ==
    IF i + 3 <= Len(l) /\ l[i + 3] = l[i + 1]
    THEN IF i + 4 > Len(l) \/ ~IsNumTok(l[i + 4])
         THEN <<[s2 EXCEPT !.fail = TRUE], i + 4>>
         ELSE <<YmdAppend(s2, ToInt(l[i + 4]), Len(l[i + 4]) > 2, ""), i + 4>>
    ELSE <<s2, i + 2>>

\* what follows a month name; s1 is the state with the month appended
AfterMonth(l, i, s1) ==
    IF i + 1 <= Len(l) /\ l[i + 1] \in {<<"-">>, <<"/">>}
    THEN IF i + 2 > Len(l) \/ ~IsNumTok(l[i + 2])
         THEN <<[s1 EXCEPT !.fail = TRUE], i + 2>>
         ELSE MonthThirdMember(l, i, YmdAppend(s1, ToInt(l[i + 2]), Len(l[i + 2]) > 2, ""))
    ELSE <<s1, i>>

\* the month-name branch of parser._parse at token i
ParseMonthToken(l, i, st) == AfterMonth(l, i, YmdAppend(st, MonthOf(l[i]), FALSE, "M"))

RECURSIVE ParseTokens(_, _, _)
\* the loop goes on after the tokens that r = <<state, last index>> has used
ParseAfter(l, r) == ParseTokens(l, r[2] + 1, r[1])

\* the token loop of parser._parse; any other token is skipped (fuzzy)
ParseTokens(l, i, st) ==
    IF st.fail \/ i > Len(l) THEN st
    ELSE IF IsNumTok(l[i]) THEN ParseAfter(l, ParseNumericToken(l, i, st))
    ELSE IF MonthOf(l[i]) # 0 THEN ParseAfter(l, ParseMonthToken(l, i, st))
    ELSE ParseTokens(l, i + 1, st)

\* _ymd.resolve_ymd with dayfirst and yearfirst off: <<year, month, day>>, -1 for
\* None; <<-2, -2, -2>> when it raises
ResolveYmd(st) ==
    LET y == st.ymd
        n == Len(y)
        k == (IF st.ystridx # 0 THEN 1 ELSE 0) + (IF st.mstridx # 0 THEN 1 ELSE 0)
    IN  IF (n = k /\ k > 0) \/ (n = 3 /\ k = 2)
        THEN <<IF st.ystridx # 0 THEN y[st.ystridx] ELSE -1,
               IF st.mstridx # 0 THEN y[st.mstridx] ELSE -1,
               IF n = 3 THEN y[CHOOSE j \in 1..3 : j # st.ystridx /\ j # st.mstridx] ELSE -1>>
        ELSE IF n > 3 THEN <<-2, -2, -2>>
        ELSE IF n = 0 THEN <<-1, -1, -1>>
        ELSE IF n = 1 THEN (IF y[1] > 31 THEN <<y[1], -1, -1>> ELSE <<-1, -1, y[1]>>)
        ELSE IF n = 2 /\ st.mstridx # 0
             THEN LET other == y[3 - st.mstridx]
                  IN  IF other > 31 THEN <<other, y[st.mstridx], -1>>
                      ELSE <<-1, y[st.mstridx], other>>
        ELSE IF n = 2
             THEN IF y[1] > 31 THEN <<y[1], y[2], -1>>
                  ELSE IF y[2] > 31 THEN <<y[2], y[1], -1>>
                  ELSE <<-1, y[1], y[2]>>
        ELSE IF st.mstridx = 1
             THEN IF y[2] > 31 THEN <<y[2], y[1], y[3]>> ELSE <<y[3], y[1], y[2]>>
        ELSE IF st.mstridx = 2
             THEN IF y[1] > 31 THEN <<y[1], y[2], y[3]>> ELSE <<y[3], y[2], y[1]>>
        ELSE IF st.mstridx = 3
             THEN IF y[2] > 31 THEN <<y[2], y[3], y[1]>> ELSE <<y[1], y[3], y[2]>>
        ELSE IF y[1] > 31 \/ st.ystridx = 1 THEN <<y[1], y[2], y[3]>>
        ELSE IF y[1] > 12 THEN <<y[3], y[2], y[1]>>
        ELSE <<y[3], y[1], y[2]>>

\* parserinfo.convertyear; the parser's own year is the year in which it was built
ConvertYear(year, century, now) ==
    IF year < 100 /\ ~century
    THEN LET y2 == year + (now.year \div 100) * 100
         IN  IF y2 >= now.year + 50 THEN y2 - 100
             ELSE IF y2 < now.year - 50 THEN y2 + 100
             ELSE y2
    ELSE year

\* _build_naive and .date(): year y, month m, day d (-1 for None) over the default now
BuildDate(y, m, d, now) ==
    IF y < MINYEAR \/ y > MAXYEAR \/ m < 1 \/ m > 12 THEN Raised("ParserError")
    ELSE IF d = -1 THEN Returned(MkDate(y, m, Min(now.day, DaysInMonth(y, m))))
    ELSE IF ValidDate(y, m, d) THEN Returned(MkDate(y, m, d))
    ELSE Raised("ParserError")

\* the end of parser._parse and of parser.parse for the resolved ymd
BuildNaive(st, ymd, now) ==
    IF ymd[1] = -2 THEN Raised("ParserError")
    ELSE IF ymd = <<-1, -1, -1>> /\ st.hour = -1 THEN Raised("ParserError")
    ELSE IF st.hour > 23 \/ st.minute > 59 THEN Raised("ParserError")
    ELSE BuildDate(IF ymd[1] >= 0 THEN ConvertYear(ymd[1], st.century, now) ELSE now.year,
                   IF ymd[2] >= 0 THEN ymd[2] ELSE now.month,
                   ymd[3], now)

\* the parse once the token loop has ended in state st
ParseResult(st, now) ==
    BuildNaive(st, IF st.fail THEN <<-2, -2, -2>> ELSE ResolveYmd(st), now)

\* date_parser.parse(s, fuzzy=True).date() with datetime.now() = now: the fields
\* the text does not give are taken from now (the day no later than the month's
\* last); Returned(date), or Raised("ParserError")
FuzzyParse(s, now) == ParseResult(ParseTokens(Timelex(s), 1, ParseStart), now)

(***************************************************************************)
(* _parse_edtf_date                                                        *)
(***************************************************************************)
\* date(int(group), 1, 1) for the matched digits g
DateOfYear(g) ==
    IF ValidDate(ToInt(g), 1, 1) THEN Returned(MkDate(ToInt(g), 1, 1))
    ELSE Raised("ValueError")

\* the outer try after the year-only match with group g (<<>>: no match)
ParseMatched(g, s, now) ==
    IF g # <<>> THEN [out |-> DateOfYear(g), fuzzy |-> FALSE]
    ELSE [out |-> FuzzyParse(s, now), fuzzy |-> TRUE]

\* the body of the outer try: the outcome, and whether dateutil was called
ParseTry(v, now) ==
    IF v.t # "str" THEN [out |-> Raised("TypeError"), fuzzy |-> FALSE]
    ELSE ParseMatched(YearOnlyMatch(v.v), v.v, now)

\* the inner try after the year search with group g (<<>>: no match)
FallbackMatched(g) == IF g # <<>> THEN DateOfYear(g) ELSE Returned(NoneVal)

\* the body of the inner try: a returned date, a raised exception, or falling through
YearFallbackTry(v) ==
    IF v.t # "str" THEN Raised("TypeError") ELSE FallbackMatched(YearSearch(v.v))

\* YearFallback without the inner try: what the year search raises goes to the caller
YearFallbackUncaught(v) == YearFallbackTry(v)

\* "except Exception: pass" around the outcome f of the inner try
PassOver(f) == IF f.kind = "raise" THEN Returned(NoneVal) ELSE f

\* the inner try with its "except Exception: pass", then "return None"
YearFallback(v) == PassOver(YearFallbackTry(v))

\* "except Exception as e" around the outcome b of the outer try
ExceptFallback(b, v) ==
    IF b.out.kind = "return" THEN b ELSE [out |-> YearFallback(v), fuzzy |-> b.fuzzy]

\* the whole function: [out, fuzzy]
_parse_edtf_date(v, now) == ExceptFallback(ParseTry(v, now), v)

\* the date or None that a call returns
ParsedDate(v, now) == _parse_edtf_date(v, now).out.value

(***************************************************************************)
(* Inputs of the date normaliser                                           *)
(***************************************************************************)
\* at most this many blanks on either side of a bare year
MaxPad == 1

RECURSIVE Blanks(_)
Blanks(n) == IF n = 0 THEN <<>> ELSE <<" ">> \o Blanks(n - 1)

YearDigits == {"0", "1", "2", "9"}

\* every four-digit text over YearDigits: 0000, 1000, 1999, 2000, 2099, 2100, 9999, ...
BareYears == {<<a, b, c, d>> : a \in YearDigits, b \in YearDigits, c \in YearDigits, d \in YearDigits}

PaddedYears == {Blanks(i) \o y \o Blanks(j) : i \in 0..MaxPad, j \in 0..MaxPad, y \in BareYears}

SomeYears == {<<"1", "9", "8", "7">>, <<"2", "0", "1", "9">>, <<"2", "0", "2", "0">>}

MonthTexts == {<<"0", "0">>, <<"0", "2">>, <<"0", "7">>, <<"1", "2">>, <<"1", "3">>}

DayTexts == {<<"0", "0">>, <<"0", "1">>, <<"0", "4">>, <<"2", "9">>, <<"3", "0">>, <<"3", "2">>}

\* year and month only, e.g. 2019-07
YearMonthTexts == {y \o <<"-">> \o m : y \in SomeYears, m \in MonthTexts}

\* full dates, e.g. 2019-07-04
FullDateTexts ==
    {y \o <<"-">> \o m \o <<"-">> \o d : y \in SomeYears, m \in MonthTexts, d \in DayTexts}

OtherTexts ==
    { <<>>,
      <<" ">>,
      <<"x">>,
      <<"n", "o", "t", " ", "a", " ", "d", "a", "t", "e">>,
      <<"c", "1", "9", "8", "7">>,
      <<"c", " ", "1", "9", "8", "7">>,
      <<"1", "9", "8", "7", "?">>,
      <<"[", "1", "9", "8", "7", "]">>,
      <<"2", "1", "0", "0", "?">>,
      <<"1", "9", "8", "7", "0">>,
      <<"1", "2">>,
      <<"0", "7", "-", "0", "4">>,
      <<"J", "u", "l", " ", "2", "0", "1", "9">>,
      <<"J", "u", "l", "y", " ", "4", " ", "2", "0", "1", "9">>,
      <<"4", " ", "J", "u", "l", "y", " ", "2", "0", "1", "9">>,
      <<"1", "9", "8", "7", " ", "o", "r", " ", "1", "9", "8", "8">>,
      <<"x", " ", "2", "0", "1", "9", "-", "1", "3">>,
      <<"9", "9", "9", "9", "-", "1", "2">> }

DateTexts == PaddedYears \cup YearMonthTexts \cup FullDateTexts \cup OtherTexts

\* what a publish_date can hold: text, null, or a number
DateValues == {Str(s) : s \in DateTexts} \cup {Null, Num(1987)}

\* the days on which the program may run
Todays == {MkDate(2026, 11, 3), MkDate(2025, 1, 31), MkDate(2024, 2, 29), MkDate(2025, 7, 1)}

(***************************************************************************)
(* The date normaliser called once on one value                            *)
(***************************************************************************)
InitDate ==
    /\ pc = "parse"
    /\ today \in Todays
    /\ edtf_date \in DateValues
    /\ parsed = Pending
    /\ editions = Unused /\ earliest_editions = Unused /\ edition_result = Unused
    /\ works = Unused /\ work_keys = Unused
    /\ query = Unused /\ catalog = Unused /\ works_filtered = Unused
    /\ PipelineUnused
    /\ DriverUnused

ParseEdtfDate ==
    /\ pc = "parse"
    /\ parsed' = _parse_edtf_date(edtf_date, today)
    /\ pc' = "parsed"
    /\ UNCHANGED <<today, edtf_date, editions, earliest_editions, edition_result,
                   works, work_keys, query, catalog, works_filtered>>
    /\ UNCHANGED <<pipelineVars, driverVars>>

NextDate == ParseEdtfDate

SpecDate == InitDate /\ [][NextDate]_vars

(***************************************************************************)
(* Properties of the date normaliser                                       *)
(***************************************************************************)
\* the text is blanks, four digits from position p on, blanks
BareYearAt(s, p) ==
    /\ p >= 1 /\ p + 3 <= Len(s)
    /\ \A k \in 1..Len(s) : IF k >= p /\ k <= p + 3 THEN s[k] \in Digits ELSE s[k] = " "

FourDigitValue(s, p) ==
    1000 * DigitVal(s[p]) + 100 * DigitVal(s[p + 1]) + 10 * DigitVal(s[p + 2]) + DigitVal(s[p + 3])

TwoDigitValue(s, p) == 10 * DigitVal(s[p]) + DigitVal(s[p + 1])

\* C8: a bare four-digit year from 1000 to 2099, with or without blanks around it,
\* gives January 1 of that year and dateutil is not called
C8_BareYearIsJanuaryFirst ==
    pc = "parsed" /\ edtf_date.t = "str" =>
        \A p \in 1..Len(edtf_date.v) :
            (BareYearAt(edtf_date.v, p)
               /\ FourDigitValue(edtf_date.v, p) >= 1000
               /\ FourDigitValue(edtf_date.v, p) <= 2099)
            => parsed = [out |-> Returned(MkDate(FourDigitValue(edtf_date.v, p), 1, 1)),
                         fuzzy |-> FALSE]

C8_Witness ==
    /\ pc = "parsed"
    /\ edtf_date = Str(<<" ", "2", "0", "9", "9", " ">>)
    /\ parsed.out = Returned(MkDate(2099, 1, 1))
    /\ ~parsed.fuzzy

\* the text is YYYY-MM
IsYearMonthText(s) ==
    /\ Len(s) = 7 /\ s[5] = "-"
    /\ \A k \in {1, 2, 3, 4, 6, 7} : s[k] \in Digits

\* the text is YYYY-MM-DD
IsFullDateText(s) ==
    /\ Len(s) = 10 /\ s[5] = "-" /\ s[8] = "-"
    /\ \A k \in {1, 2, 3, 4, 6, 7, 9, 10} : s[k] \in Digits

\* C9: the result is as specific as the text and no more: a year and a month give
\* the first day of that month, a full date is kept as it is, on whatever day the
\* program runs
C9_NeverMoreSpecific ==
    pc = "parsed" /\ edtf_date.t = "str" =>
        LET s == edtf_date.v
        IN  /\ (IsYearMonthText(s)
                  /\ ValidDate(FourDigitValue(s, 1), TwoDigitValue(s, 6), 1))
               => parsed.out = Returned(MkDate(FourDigitValue(s, 1), TwoDigitValue(s, 6), 1))
            /\ (IsFullDateText(s)
                  /\ ValidDate(FourDigitValue(s, 1), TwoDigitValue(s, 6), TwoDigitValue(s, 9)))
               => parsed.out = Returned(MkDate(FourDigitValue(s, 1), TwoDigitValue(s, 6),
                                               TwoDigitValue(s, 9)))

\* a four-digit year from 1000 to 2099 stands at position p with no letter or digit
\* next to it
EmbeddedYearAt(s, p) ==
    /\ p >= 1 /\ p + 3 <= Len(s)
    /\ \A k \in p..(p + 3) : s[k] \in Digits
    /\ FourDigitValue(s, p) >= 1000 /\ FourDigitValue(s, p) <= 2099
    /\ (p > 1 => ~(s[p - 1] \in Digits \cup Letters))
    /\ (p + 4 <= Len(s) => ~(s[p + 4] \in Digits \cup Letters))

\* what the fallback is to give: January 1 of the first embedded year, else None
Salvaged(v) ==
    IF v.t = "str" /\ \E p \in 1..Len(v.v) : EmbeddedYearAt(v.v, p)
    THEN LET p == CHOOSE q \in 1..Len(v.v) :
                      EmbeddedYearAt(v.v, q) /\ \A r \in 1..(q - 1) : ~EmbeddedYearAt(v.v, r)
         IN  MkDate(FourDigitValue(v.v, p), 1, 1)
    ELSE NoneVal

\* C10: the call returns for every value; when the first attempt raises (no text, a
\* bare year that is no year of the calendar, a text dateutil rejects) the result is
\* January 1 of the first embedded plausible year, or None when there is none
C10_NeverRaises ==
    pc = "parsed" =>
        /\ parsed.out.kind = "return"
        /\ ParseTry(edtf_date, today).out.kind = "raise" => parsed.out.value = Salvaged(edtf_date)

\* dateutil rejects "1987?" and the year is salvaged
C10_Witness ==
    /\ pc = "parsed"
    /\ edtf_date = Str(<<"1", "9", "8", "7", "?">>)
    /\ parsed.fuzzy
    /\ parsed.out = Returned(MkDate(1987, 1, 1))

(***************************************************************************)
(* Field values of the editions that the catalog answers                   *)
(***************************************************************************)
\* publish_date of an edition: no key, null, an unparseable text, a bare year, a
\* full date of that year, an earlier year
EditionDates ==
    { Absent, Null,
      Str(<<"x">>),
      Str(<<"2", "0", "0", "1">>),
      Str(<<"2", "0", "0", "1", "-", "0", "7", "-", "0", "4">>),
      Str(<<"1", "9", "9", "9">>) }

\* publishers and ISBNs of an edition: nothing, a publisher only, a publisher and an
\* ISBN list that is empty, a publisher and an ISBN-13, an ISBN-10 but no publisher
EditionHoldings ==
    { [publishers |-> Absent,       isbn_13 |-> Absent,         isbn_10 |-> Absent],
      [publishers |-> Lst(<<"P">>), isbn_13 |-> Absent,         isbn_10 |-> Absent],
      [publishers |-> Lst(<<"P">>), isbn_13 |-> Lst(<<>>),      isbn_10 |-> Absent],
      [publishers |-> Lst(<<"P">>), isbn_13 |-> Lst(<<"978">>), isbn_10 |-> Absent],
      [publishers |-> Lst(<<>>),    isbn_13 |-> Absent,         isbn_10 |-> Lst(<<"140">>)] }

\* the day on which the edition selector runs
EditionsToday == MkDate(2026, 11, 3)

\* _parse_edtf_date on the publish_date values above, computed once per value
ParsedTable ==
    [now \in {EditionsToday} |-> [d \in EditionDates |-> ParsedDate(d, now)]]

(***************************************************************************)
(* find_edition_with_earliest_publication                                  *)
(***************************************************************************)
\* date(9999, 12, 31), the start value of earliest_publication_date
FarFuture == MkDate(MAXYEAR, 12, 31)

\* edition.get(k) is not None
GetIsNotNone(x) == x # Absent /\ x # Null

\* edition.get("publishers") is not None and len(edition.get("publishers")) > 0
HasPublishers(e) == GetIsNotNone(e.publishers) /\ Len(e.publishers.v) > 0

\* edition.get("isbn_13") is not None or edition.get("isbn_10") is not None
HasIsbnField(e) == GetIsNotNone(e.isbn_13) \/ GetIsNotNone(e.isbn_10)

\* ScanDated that keeps an edition only when its whole date equals the earliest date
ScanDatedExactDate(st, e, d) ==
    IF d = NoneVal THEN st
    ELSE IF d = st.earliest THEN [st EXCEPT !.bucket = Append(@, e)]
    ELSE IF DateLess(d, st.earliest) THEN [earliest |-> d, bucket |-> <<e>>]
    ELSE st

\* ScanDated with the comparison turned around after the first dated edition
ScanDatedLatest(st, e, d) ==
    IF d = NoneVal THEN st
    ELSE IF d.year = st.earliest.year THEN [st EXCEPT !.bucket = Append(@, e)]
    ELSE IF st.bucket = <<>> \/ DateLess(st.earliest, d)
         THEN [earliest |-> d, bucket |-> <<e>>]
    ELSE st

\* the loop body for an edition with a publish_date that parses to d (or to None)
ScanDated(st, e, d) ==
    IF d = NoneVal THEN st
    ELSE IF d.year = st.earliest.year THEN [st EXCEPT !.bucket = Append(@, e)]
    ELSE IF DateLess(d, st.earliest) THEN [earliest |-> d, bucket |-> <<e>>]
    ELSE st

\* one iteration of the scan loop: st = [earliest, bucket]
ScanStep(st, e, now) ==
    IF e.publish_date = Absent THEN st
    ELSE ScanDated(st, e, ParsedTable[now][e.publish_date])

RECURSIVE ScanFrom(_, _, _, _)
ScanFrom(eds, i, st, now) ==
    IF i > Len(eds) THEN st ELSE ScanFrom(eds, i + 1, ScanStep(st, eds[i], now), now)

\* ScanEditions that starts from the first edition instead of an empty bucket
ScanEditionsSeeded(eds, now) ==
    ScanFrom(eds, 1, [earliest |-> FarFuture,
                      bucket |-> IF Len(eds) > 0 THEN <<eds[1]>> ELSE <<>>], now).bucket

\* the scan loop: earliest_editions when it ends
ScanEditions(eds, now) ==
    ScanFrom(eds, 1, [earliest |-> FarFuture, bucket |-> <<>>], now).bucket

\* the first element of a sequence, or NoneVal
FirstOf(seq) == IF Len(seq) = 0 THEN NoneVal ELSE seq[1]

PublisherAndIsbn(e) == HasPublishers(e) /\ HasIsbnField(e)

\* the three return statements after the scan
SelectFromBucket(bucket) ==
    IF Len(bucket) = 0 THEN NoneVal
    ELSE IF FirstOf(SelectSeq(bucket, PublisherAndIsbn)) # NoneVal
         THEN FirstOf(SelectSeq(bucket, PublisherAndIsbn))
    ELSE IF FirstOf(SelectSeq(bucket, HasPublishers)) # NoneVal
         THEN FirstOf(SelectSeq(bucket, HasPublishers))
    ELSE bucket[1]

find_edition_with_earliest_publication(eds, now) == SelectFromBucket(ScanEditions(eds, now))

(***************************************************************************)
(* The edition selector called once on one list of editions                *)
(***************************************************************************)
\* at most this many editions in one call
MaxEditions == 3

\* the edition at position i of the catalog's answer
MkEdition(i, d, h) ==
    [key |-> i, publish_date |-> d, publishers |-> h.publishers,
     isbn_13 |-> h.isbn_13, isbn_10 |-> h.isbn_10]

EditionShapes == EditionDates \X EditionHoldings

\* the list that gives position i the shape f[i]
EditionList(n, f) == [i \in 1..n |-> MkEdition(i, f[i][1], f[i][2])]

InitEditions ==
    /\ pc = "select"
    /\ today = EditionsToday
    /\ \E n \in 0..MaxEditions : \E f \in [1..n -> EditionShapes] :
           editions = EditionList(n, f)
    /\ earliest_editions = Pending
    /\ edition_result = Pending
    /\ edtf_date = Unused /\ parsed = Unused
    /\ works = Unused /\ work_keys = Unused
    /\ query = Unused /\ catalog = Unused /\ works_filtered = Unused
    /\ PipelineUnused
    /\ DriverUnused

FindEditionWithEarliestPublication ==
    /\ pc = "select"
    /\ earliest_editions' = ScanEditions(editions, today)
    /\ edition_result' = find_edition_with_earliest_publication(editions, today)
    /\ pc' = "selected"
    /\ UNCHANGED <<today, editions, edtf_date, parsed, works, work_keys,
                   query, catalog, works_filtered>>
    /\ UNCHANGED <<pipelineVars, driverVars>>

NextEditions == FindEditionWithEarliestPublication

SpecEditions == InitEditions /\ [][NextEditions]_vars

(***************************************************************************)
(* Properties of the edition selector                                      *)
(***************************************************************************)
\* the parsed publish_date of an edition, NoneVal when it has none that parses
PubDate(e) ==
    IF e.publish_date = Absent THEN NoneVal ELSE ParsedTable[today][e.publish_date]

Parseable(e) == PubDate(e) # NoneVal

ParseableYears == {PubDate(editions[i]).year : i \in {j \in DOMAIN editions : Parseable(editions[j])}}

IsMinYear(y) == y \in ParseableYears /\ \A z \in ParseableYears : y <= z

InMinYear(e) == Parseable(e) /\ IsMinYear(PubDate(e).year)

\* the edition holds at least one ISBN value
HasIsbnValue(e) ==
    \/ (e.isbn_13 # Absent /\ e.isbn_13 # Null /\ Len(e.isbn_13.v) > 0)
    \/ (e.isbn_10 # Absent /\ e.isbn_10 # Null /\ Len(e.isbn_10.v) > 0)

PublisherAndIsbnValue(e) == HasPublishers(e) /\ HasIsbnValue(e)

\* C3: when the scan ends, the bucket is exactly the parseable editions of the
\* minimum parseable year, in encounter order, wherever that year first appears
C3_BucketIsMinYear ==
    pc = "selected" => earliest_editions = SelectSeq(editions, InMinYear)

\* a later year comes first, then two editions of the earliest year
C3_Witness ==
    /\ pc = "selected"
    /\ Len(editions) = 3
    /\ Parseable(editions[1]) /\ PubDate(editions[1]).year = 2001
    /\ earliest_editions = <<editions[2], editions[3]>>
    /\ PubDate(editions[2]) = MkDate(1999, 1, 1)

\* C4: the returned edition is the first of the bucket with a publisher and an
\* ISBN, else the first with a publisher, else the first of the bucket
C4_PreferenceOrder ==
    pc = "selected" /\ Len(earliest_editions) > 0 =>
        edition_result =
            IF FirstOf(SelectSeq(earliest_editions, PublisherAndIsbnValue)) # NoneVal
            THEN FirstOf(SelectSeq(earliest_editions, PublisherAndIsbnValue))
            ELSE IF FirstOf(SelectSeq(earliest_editions, HasPublishers)) # NoneVal
                 THEN FirstOf(SelectSeq(earliest_editions, HasPublishers))
                 ELSE earliest_editions[1]

\* C5: an edition without any ISBN value is never returned while the bucket holds
\* an edition with a publisher and an ISBN value
C5_RuleANeedsIsbnValue ==
    pc = "selected" /\ edition_result # NoneVal /\ ~HasIsbnValue(edition_result) =>
        \A i \in DOMAIN earliest_editions : ~PublisherAndIsbnValue(earliest_editions[i])

\* C6: the returned edition has a publish_date that parses, and the result is None
\* when no edition has one
C6_UndatedNeverReturned ==
    pc = "selected" =>
        /\ edition_result # NoneVal => Parseable(edition_result)
        /\ (\A i \in DOMAIN editions : ~Parseable(editions[i])) => edition_result = NoneVal

\* an undated edition with publisher and ISBN is passed over for a dated one without
C6_Witness ==
    /\ pc = "selected"
    /\ Len(editions) = 2
    /\ ~Parseable(editions[1]) /\ PublisherAndIsbnValue(editions[1])
    /\ edition_result = editions[2]
    /\ ~HasPublishers(editions[2])

\* C7 as stated: no parseable edition has a parsed date (year, month, day) strictly
\* before that of the returned edition
C7_EarliestByFullDate ==
    pc = "selected" /\ edition_result # NoneVal =>
        \A i \in DOMAIN editions :
            Parseable(editions[i]) => ~DateLess(PubDate(editions[i]), PubDate(edition_result))

\* C7 amended: no parseable edition has a parsed date in a calendar year before the
\* year of the returned edition
C7_EarliestByYear ==
    pc = "selected" /\ edition_result # NoneVal =>
        \A i \in DOMAIN editions :
            Parseable(editions[i]) => PubDate(editions[i]).year >= PubDate(edition_result).year

\* the returned edition is of 1999 although an edition of 2001 came first
C7_Witness ==
    /\ pc = "selected"
    /\ Len(editions) = 3
    /\ Parseable(editions[1]) /\ PubDate(editions[1]).year = 2001
    /\ edition_result = editions[3]
    /\ PubDate(edition_result).year = 1999

(***************************************************************************)
(* Works of the catalog's search answer                                    *)
(***************************************************************************)
WorksPrefix == <<"/", "w", "o", "r", "k", "s", "/">>

\* the key of the i-th work: /works/OL<i>W
WorkKey(i) == WorksPrefix \o <<"O", "L", CHOOSE c \in Digits : DigitVal(c) = i, "W">>

MkWork(i, title, author_key, year) ==
    [key |-> WorkKey(i), title |-> title, author_key |-> author_key,
     first_publish_year |-> year]

StartsWith(s, old) == Len(s) >= Len(old) /\ SubSeq(s, 1, Len(old)) = old

RECURSIVE Replace(_, _)
\* str.replace(old, ""), old not empty
Replace(s, old) ==
    IF Len(s) = 0 THEN <<>>
    ELSE IF StartsWith(s, old) THEN Replace(SubSeq(s, Len(old) + 1, Len(s)), old)
    ELSE <<s[1]>> \o Replace(Tail(s), old)

(***************************************************************************)
(* find_work_keys_with_earliest_publication_year                           *)
(***************************************************************************)
\* float("inf")
PosInf == [inf |-> TRUE]

Finite(y) == [inf |-> FALSE, v |-> y]

\* the first loop: the least first_publish_year, PosInf when no work has the key;
\* comparing null with a number raises TypeError
RECURSIVE EarliestYearFrom(_, _, _)
EarliestYearFrom(ws, i, acc) ==
    IF i > Len(ws) THEN Returned(acc)
    ELSE LET y == ws[i].first_publish_year
         IN  IF y = Absent THEN EarliestYearFrom(ws, i + 1, acc)
             ELSE IF y.t # "num" THEN Raised("TypeError")
             ELSE IF acc.inf \/ y.v < acc.v THEN EarliestYearFrom(ws, i + 1, Finite(y.v))
             ELSE EarliestYearFrom(ws, i + 1, acc)

HasYear(w, y) == w.first_publish_year # Absent /\ w.first_publish_year = Num(y)

\* the second loop, with only the first work of the earliest year kept
CollectFirstEarliest(ws, y) ==
    LET hits == {i \in DOMAIN ws : HasYear(ws[i], y)}
    IN  IF hits = {} THEN <<>> ELSE <<ws[CHOOSE i \in hits : \A j \in hits : i <= j]>>

\* the second loop: every work of the earliest year
CollectEarliest(ws, y) == SelectSeq(ws, LAMBDA w : HasYear(w, y))

find_work_keys_with_earliest_publication_year(ws) ==
    IF Len(ws) = 0 THEN Returned(<<>>)
    ELSE LET e == EarliestYearFrom(ws, 1, PosInf)
         IN  IF e.kind = "raise" THEN e
             ELSE IF e.value.inf THEN Returned(<<>>)
             ELSE LET earliest_works == CollectEarliest(ws, e.value.v)
                  IN  Returned([i \in DOMAIN earliest_works |->
                                   Replace(earliest_works[i].key, WorksPrefix)])

(***************************************************************************)
(* The earliest-work selector called once on one list of works             *)
(***************************************************************************)
\* at most this many works in one call
MaxWorks == 3

\* first_publish_year of a work: no key, or a year
WorkYears == {Absent, Num(1987), Num(1997), Num(2001)}

AnyTitle == Str(<<"T", "h">>)

WorkList(n, f) == [i \in 1..n |-> MkWork(i, AnyTitle, Absent, f[i])]

InitEarliest ==
    /\ pc = "earliest"
    /\ \E n \in 0..MaxWorks : \E f \in [1..n -> WorkYears] : works = WorkList(n, f)
    /\ work_keys = Pending
    /\ today = Unused /\ edtf_date = Unused /\ parsed = Unused
    /\ editions = Unused /\ earliest_editions = Unused /\ edition_result = Unused
    /\ query = Unused /\ catalog = Unused /\ works_filtered = Unused
    /\ PipelineUnused
    /\ DriverUnused

FindWorkKeysWithEarliestPublicationYear ==
    /\ pc = "earliest"
    /\ work_keys' = find_work_keys_with_earliest_publication_year(works)
    /\ pc' = "keyed"
    /\ UNCHANGED <<today, edtf_date, parsed, editions, earliest_editions, edition_result,
                   works, query, catalog, works_filtered>>
    /\ UNCHANGED <<pipelineVars, driverVars>>

NextEarliest == FindWorkKeysWithEarliestPublicationYear

SpecEarliest == InitEarliest /\ [][NextEarliest]_vars

(***************************************************************************)
(* Properties of the earliest-work selector                                *)
(***************************************************************************)
KnownYear(w) == w.first_publish_year # Absent /\ w.first_publish_year.t = "num"

KnownYears == {works[i].first_publish_year.v : i \in {j \in DOMAIN works : KnownYear(works[j])}}

AtLeastYear(w) == KnownYear(w) /\ \A z \in KnownYears : w.first_publish_year.v <= z

\* the key without its /works/ prefix
BareKey(w) == SubSeq(w.key, Len(WorksPrefix) + 1, Len(w.key))

\* C2: the result is the keys of all the works at the least known
\* first_publish_year, in input order; works without a year are left out and the
\* result is empty when no work has a year
C2_AllEarliestWorks ==
    pc = "keyed" =>
        LET tied == SelectSeq(works, AtLeastYear)
        IN  work_keys = Returned([i \in DOMAIN tied |-> BareKey(tied[i])])

\* years 1997, 1997, 2001 give both works of 1997
C2_Witness ==
    /\ pc = "keyed"
    /\ Len(works) = 3
    /\ works[1].first_publish_year = Num(1997)
    /\ works[2].first_publish_year = Num(1997)
    /\ works[3].first_publish_year = Num(2001)
    /\ work_keys = Returned(<< <<"O", "L", "1", "W">>, <<"O", "L", "2", "W">> >>)

(***************************************************************************)
(* The catalog: the search answer and the author records                   *)
(***************************************************************************)
AuthorKeys == {"OL1A", "OL2A"}

\* requests.get raised: there is no status code
RequestError == [status |-> 0]

NotFound == [status |-> 404]

AuthorData(name, alternate_names) ==
    [status |-> 200, name |-> name, alternate_names |-> alternate_names]

SearchData(docs) ==
    [status |-> 200, json |-> [numFound |-> Num(Len(docs)), docs |-> docs]]

\* status 200 with a body that is not JSON: response.json() raises
Garbled == [status |-> 200]

\* response.json() returns the record
Decodes(answer) == "name" \in DOMAIN answer

\* the names of one author key appended to author_names
AuthorNamesOf(answer) ==
    IF answer.status # 200 THEN <<>>
    ELSE IF ~Decodes(answer) THEN <<>>
    ELSE (IF answer.name # Absent THEN <<answer.name.v>> ELSE <<>>)
         \o (IF answer.alternate_names # Absent THEN answer.alternate_names.v ELSE <<>>)

RECURSIVE FetchNamesUntilFailure(_, _, _)
\* FetchNamesFrom with the loop left at the first key that does not resolve
FetchNamesUntilFailure(author_keys, i, authors) ==
    IF i > Len(author_keys) THEN <<>>
    ELSE IF authors[author_keys[i]].status # 200 \/ ~Decodes(authors[author_keys[i]])
    THEN <<>>
    ELSE AuthorNamesOf(authors[author_keys[i]])
         \o FetchNamesUntilFailure(author_keys, i + 1, authors)

RECURSIVE FetchNamesFrom(_, _, _)
FetchNamesFrom(author_keys, i, authors) ==
    IF i > Len(author_keys) THEN <<>>
    ELSE AuthorNamesOf(authors[author_keys[i]]) \o FetchNamesFrom(author_keys, i + 1, authors)

_fetch_all_author_names(author_keys, authors) == FetchNamesFrom(author_keys, 1, authors)

\* the JSON of the search answer, None when the request or the decoding failed
_fetch_works(search) ==
    IF search.status = 200 /\ "json" \in DOMAIN search THEN search.json ELSE NoneVal

(***************************************************************************)
(* fetch_and_filter_works                                                  *)
(***************************************************************************)
\* works.get("numFound", 0)
GetNumFound(found) == IF "numFound" \in DOMAIN found THEN found.numFound.v ELSE 0

\* the test of one work with "or" between its two halves
WorkMatchesEither(work_title, author_names, title, author) ==
    \/ Lower(work_title) = Lower(title)
    \/ \E i \in DOMAIN author_names : Lower(author_names[i]) = Lower(author)

\* the test of one work
WorkMatches(work_title, author_names, title, author) ==
    /\ Lower(work_title) = Lower(title)
    /\ \E i \in DOMAIN author_names : Lower(author_names[i]) = Lower(author)

\* the test of lines 168-176 with a work that has no author_key judged by its title
KeepsWorkUnverified(work, title, author, authors) ==
    IF work.author_key = Absent THEN Lower(work.title.v) = Lower(title)
    ELSE WorkMatches(work.title.v, _fetch_all_author_names(work.author_key.v, authors),
                     title, author)

\* lines 168-176 for one work
KeepsWork(work, title, author, authors) ==
    /\ work.author_key # Absent
    /\ WorkMatches(work.title.v, _fetch_all_author_names(work.author_key.v, authors),
                   title, author)

fetch_and_filter_works(title, author, cat) ==
    LET found == _fetch_works(cat.search)
    IN  IF found = NoneVal THEN NoneVal
        ELSE IF GetNumFound(found) = 0 THEN NoneVal
        ELSE LET kept == SelectSeq(found.docs,
                                   LAMBDA work : KeepsWork(work, title, author, cat.authors))
             IN  IF Len(kept) > 0 THEN Lst(kept) ELSE NoneVal

(***************************************************************************)
(* The requests of one resolution                                          *)
(*                                                                         *)
(* openlibrary = [search, authors, isbn, editions]: what each endpoint     *)
(* answers to each request; one request has one answer during a            *)
(* resolution.                                                             *)
(***************************************************************************)
SearchRequest(title, author) == [endpoint |-> "search", title |-> title, author |-> author]

AuthorRequest(key) == [endpoint |-> "authors", key |-> key]

IsbnRequest(isbn) == [endpoint |-> "isbn", key |-> isbn]

\* the part of the catalog that fetch_and_filter_works(title, author) sees
CatalogFor(lib, title, author) ==
    [search |-> lib.search[<<title, author>>], authors |-> lib.authors]

RECURSIVE AuthorRequestsFrom(_, _)
\* the requests of _fetch_all_author_names for the works docs[i..] that have author_key
AuthorRequestsFrom(docs, i) ==
    IF i > Len(docs) THEN <<>>
    ELSE (IF docs[i].author_key = Absent THEN <<>>
          ELSE [j \in DOMAIN docs[i].author_key.v |-> AuthorRequest(docs[i].author_key.v[j])])
         \o AuthorRequestsFrom(docs, i + 1)

\* the requests after the search request, for its answer found
RequestsAfterSearch(found) ==
    IF found = NoneVal THEN <<>>
    ELSE IF GetNumFound(found) = 0 THEN <<>>
    ELSE AuthorRequestsFrom(found.docs, 1)

\* the requests that fetch_and_filter_works(title, author) sends
MatcherRequests(lib, title, author) ==
    <<SearchRequest(title, author)>>
    \o RequestsAfterSearch(_fetch_works(lib.search[<<title, author>>]))

\* a call of the work matcher: the works it returns (NoneVal: no match), its requests
MatchCall(lib, title, author) ==
    [works |-> fetch_and_filter_works(title, author, CatalogFor(lib, title, author)),
     requests |-> MatcherRequests(lib, title, author)]

(***************************************************************************)
(* The work matcher called once on one query and one catalog               *)
(***************************************************************************)
\* at most this many works in the search answer
MaxDocs == 2

QueryTitles == {<<"T", "h">>, <<"t", "H">>}

QueryAuthors == {<<"t", "H">>, <<"T", "a">>}

WorkTitles == {<<"T", "h">>, <<"t", "H">>, <<"T", "a">>}

WorkAuthorKeys ==
    {Absent, Lst(<<"OL1A">>), Lst(<<"OL2A">>), Lst(<<"OL1A", "OL2A">>)}

AuthorAnswers ==
    {RequestError, NotFound,
     AuthorData(Str(<<"T", "h">>), Absent),
     AuthorData(Str(<<"T", "a">>), Lst(<< <<"t", "a">>, <<"T", "h">> >>)),
     AuthorData(Absent, Lst(<< <<"T", "a">> >>))}

DocShapes == WorkTitles \X WorkAuthorKeys

DocList(n, f) == [i \in 1..n |-> MkWork(i, Str(f[i][1]), f[i][2], Num(1997))]

InitMatch ==
    /\ pc = "filter"
    /\ \E t \in QueryTitles, a \in QueryAuthors : query = [title |-> t, author |-> a]
    /\ \E authors \in [AuthorKeys -> AuthorAnswers] :
           \/ catalog = [search |-> RequestError, authors |-> authors]
           \/ \E n \in 0..MaxDocs : \E f \in [1..n -> DocShapes] :
                  catalog = [search |-> SearchData(DocList(n, f)), authors |-> authors]
    /\ works_filtered = Pending
    /\ calls = <<>>
    /\ today = Unused /\ edtf_date = Unused /\ parsed = Unused
    /\ editions = Unused /\ earliest_editions = Unused /\ edition_result = Unused
    /\ works = Unused /\ work_keys = Unused
    /\ openlibrary = Unused /\ name_refs = Unused /\ names_found = Unused
    /\ edition_call = Unused /\ fetched = Unused
    /\ DriverUnused

FetchAndFilterWorks ==
    /\ pc = "filter"
    /\ works_filtered' = Returned(fetch_and_filter_works(query.title, query.author, catalog))
    /\ calls' = calls \o <<SearchRequest(query.title, query.author)>>
                      \o RequestsAfterSearch(_fetch_works(catalog.search))
    /\ pc' = "filtered"
    /\ UNCHANGED <<today, edtf_date, parsed, editions, earliest_editions, edition_result,
                   works, work_keys, query, catalog>>
    /\ UNCHANGED <<openlibrary, name_refs, names_found, edition_call, fetched, driverVars>>

NextMatch == FetchAndFilterWorks

SpecMatch == InitMatch /\ [][NextMatch]_vars

(***************************************************************************)
(* Properties of the work matcher                                          *)
(***************************************************************************)
CasePairs == {<<"A", "a">>, <<"B", "b">>, <<"J", "j">>, <<"T", "t">>, <<"H", "h">>}

SameLetter(c, d) == c = d \/ <<c, d>> \in CasePairs \/ <<d, c>> \in CasePairs

SameIgnoringCase(a, b) == Len(a) = Len(b) /\ \A i \in DOMAIN a : SameLetter(a[i], b[i])

AnsweredDocs == IF catalog.search.status = 200 THEN catalog.search.json.docs ELSE <<>>

\* the primary and alternate names on record for the author keys of a work
ResolvedNames(w) ==
    IF w.author_key = Absent THEN {}
    ELSE UNION {LET r == catalog.authors[w.author_key.v[i]]
                IN  IF r.status # 200 THEN {}
                    ELSE (IF r.name = Absent THEN {} ELSE {r.name.v})
                         \cup (IF r.alternate_names = Absent THEN {}
                               ELSE {r.alternate_names.v[j] : j \in DOMAIN r.alternate_names.v})
                : i \in DOMAIN w.author_key.v}

TitleAgrees(w) == SameIgnoringCase(w.title.v, query.title)

AuthorAgrees(w) == \E name \in ResolvedNames(w) : SameIgnoringCase(name, query.author)

\* C1: the kept works are exactly the works of the answer whose title equals the
\* query title ignoring case and one of whose resolved author names equals the
\* query author ignoring case, in the order of the answer (None when none is kept)
C1_KeptIffTitleAndAuthorAgree ==
    pc = "filtered" =>
        LET kept == SelectSeq(AnsweredDocs, LAMBDA w : TitleAgrees(w) /\ AuthorAgrees(w))
        IN  works_filtered = Returned(IF kept = <<>> THEN NoneVal ELSE Lst(kept))

\* a work whose title agrees but whose author does not is dropped; the next one,
\* whose title and alternate author name differ from the query only in case, is kept
C1_Witness ==
    /\ pc = "filtered"
    /\ query = [title |-> <<"T", "h">>, author |-> <<"t", "H">>]
    /\ Len(AnsweredDocs) = 2
    /\ AnsweredDocs[1].title = Str(<<"t", "H">>)
    /\ TitleAgrees(AnsweredDocs[1]) /\ ~AuthorAgrees(AnsweredDocs[1])
    /\ AnsweredDocs[2].title = Str(<<"t", "H">>)
    /\ AnsweredDocs[2].author_key = Lst(<<"OL1A", "OL2A">>)
    /\ catalog.authors["OL2A"] =
           AuthorData(Str(<<"T", "a">>), Lst(<< <<"t", "a">>, <<"T", "h">> >>))
    /\ works_filtered = Returned(Lst(<<AnsweredDocs[2]>>))

RECURSIVE LookupsExpected(_, _)
\* one author request per author key of the works docs[i..] that have author keys
LookupsExpected(docs, i) ==
    IF i > Len(docs) THEN <<>>
    ELSE (IF docs[i].author_key = Absent THEN <<>>
          ELSE [j \in DOMAIN docs[i].author_key.v |->
                   [endpoint |-> "authors", key |-> docs[i].author_key.v[j]]])
         \o LookupsExpected(docs, i + 1)

\* C21: a work of the answer without author_key is never among the kept works,
\* whatever its title, and the author requests are those of the works that
\* have author keys and no others; the result is None, never an empty list,
\* when the search failed, found nothing, or no work was kept
C21_NoAuthorKeysNoMatch ==
    pc = "filtered" =>
        /\ works_filtered.value # Lst(<<>>)
        /\ works_filtered.value # NoneVal =>
               \A k \in DOMAIN works_filtered.value.v :
                   works_filtered.value.v[k].author_key # Absent
        /\ calls = <<[endpoint |-> "search", title |-> query.title, author |-> query.author]>>
                   \o LookupsExpected(AnsweredDocs, 1)
        /\ (\A k \in DOMAIN AnsweredDocs : AnsweredDocs[k].author_key = Absent) =>
               works_filtered = Returned(NoneVal)

\* the only work of the answer has the title of the query and no author_key: the
\* search is the only request and there is no match
C21_Witness ==
    /\ pc = "filtered"
    /\ Len(AnsweredDocs) = 1
    /\ AnsweredDocs[1].author_key = Absent
    /\ AnsweredDocs[1].title.v = query.title
    /\ Len(calls) = 1
    /\ works_filtered = Returned(NoneVal)

(***************************************************************************)
(* The author resolver called once on one list of author keys              *)
(***************************************************************************)
\* at most this many author keys in one call
MaxRefs == 3

\* what the author endpoint may answer for one key
AuthorLookups == AuthorAnswers \cup {Garbled}

InitNames ==
    /\ pc = "names"
    /\ \E n \in 0..MaxRefs : name_refs \in [1..n -> AuthorKeys]
    /\ \E authors \in [AuthorKeys -> AuthorLookups] : openlibrary = [authors |-> authors]
    /\ names_found = Pending
    /\ edition_call = Unused /\ fetched = Unused /\ calls = Unused
    /\ FunctionsUnused
    /\ DriverUnused

FetchAllAuthorNames ==
    /\ pc = "names"
    /\ names_found' = Returned(_fetch_all_author_names(name_refs, openlibrary.authors))
    /\ pc' = "named"
    /\ UNCHANGED <<functionVars, openlibrary, name_refs, edition_call, fetched, calls,
                   driverVars>>

NextNames == FetchAllAuthorNames

SpecNames == InitNames /\ [][NextNames]_vars

(***************************************************************************)
(* Properties of the author resolver                                       *)
(***************************************************************************)
Resolves(k) == openlibrary.authors[k].status = 200 /\ "name" \in DOMAIN openlibrary.authors[k]

\* the primary and alternate names on the record of key k
NamesOnRecord(k) ==
    LET r == openlibrary.authors[k]
    IN  (IF r.name = Absent THEN {} ELSE {r.name.v})
        \cup (IF r.alternate_names = Absent THEN {}
              ELSE {r.alternate_names.v[j] : j \in DOMAIN r.alternate_names.v})

ElementsOf(seq) == {seq[i] : i \in DOMAIN seq}

\* C20: the names returned are exactly the primary and alternate names of the
\* references that resolve; a reference that fails adds nothing and hides no other
C20_NamesOfResolvedReferences ==
    pc = "named" =>
        /\ names_found.kind = "return"
        /\ ElementsOf(names_found.value) =
               UNION {NamesOnRecord(k) : k \in {q \in ElementsOf(name_refs) : Resolves(q)}}

\* a failing reference between two that resolve: the names of both are returned
C20_Witness ==
    /\ pc = "named"
    /\ name_refs = <<"OL1A", "OL2A", "OL1A">>
    /\ openlibrary.authors["OL2A"] = RequestError
    /\ openlibrary.authors["OL1A"] =
           AuthorData(Str(<<"T", "a">>), Lst(<< <<"t", "a">>, <<"T", "h">> >>))
    /\ ElementsOf(names_found.value) = {<<"T", "a">>, <<"t", "a">>, <<"T", "h">>}

(***************************************************************************)
(* fetch_all_editions                                                      *)
(***************************************************************************)
\* max_limit when the caller gives none
DefaultMaxLimit == 2000

\* GET /works/<work_key>/editions.json, with ?limit=<n> when limit is Num(n) and not
\* NoneVal
EditionsRequest(work_key, limit) == [endpoint |-> "editions", key |-> work_key, limit |-> limit]

\* raise_for_status() and json() both succeed
Answered(answer) == answer.status = 200 /\ "json" \in DOMAIN answer

\* the answer to the second request: at most limit of the editions on the shelf
BulkAnswer(shelf, limit) ==
    IF shelf.bulk # "ok" THEN shelf.failure
    ELSE [status |-> 200,
          json |-> [entries |-> IF shelf.entries_key
                                THEN Lst(SubSeq(shelf.stock, 1, Min(limit, Len(shelf.stock))))
                                ELSE Absent]]

\* the limit of the second request, without the ceiling
RequestLimitUncapped(total_size, max_limit) == total_size

\* limit = min(total_size, max_limit)
RequestLimit(total_size, max_limit) == Min(total_size, max_limit)

\* the second request and what the function returns after it
SecondCall(shelf, work_key, limit, first) ==
    [calls |-> <<first, EditionsRequest(work_key, Num(limit))>>,
     entries |-> IF ~Answered(BulkAnswer(shelf, limit)) THEN <<>>
                 ELSE IF BulkAnswer(shelf, limit).json.entries = Absent THEN <<>>
                 ELSE BulkAnswer(shelf, limit).json.entries.v]

\* the function on the shelf of its work: the requests it sends and the list it returns
fetch_all_editions(shelf, work_key, max_limit) ==
    IF ~Answered(shelf.probe) \/ shelf.probe.json.size = Absent
    THEN [calls |-> <<EditionsRequest(work_key, NoneVal)>>, entries |-> <<>>]
    ELSE IF shelf.probe.json.size = Null \/ shelf.probe.json.size.v = 0
    THEN [calls |-> <<EditionsRequest(work_key, NoneVal)>>, entries |-> <<>>]
    ELSE SecondCall(shelf, work_key, RequestLimit(shelf.probe.json.size.v, max_limit),
                    EditionsRequest(work_key, NoneVal))

(***************************************************************************)
(* The edition fetcher called once on one work                             *)
(***************************************************************************)
\* at most this many editions on the shelf of a work
MaxStock == 2

\* the largest edition count that the first answer reports
MaxSize == 3

SizeAnswers ==
    {RequestError, NotFound, Garbled}
    \cup {[status |-> 200, json |-> [size |-> z]] : z \in {Absent, Null} \cup {Num(n) : n \in 0..MaxSize}}

\* the editions of a work: one dated 2001 with a publisher and an ISBN each
Stock(n) ==
    [i \in 1..n |->
        MkEdition(i, Str(<<"2", "0", "0", "1">>),
                  [publishers |-> Lst(<<"P">>), isbn_13 |-> Lst(<<"978">>), isbn_10 |-> Absent])]

\* the editions endpoint for one work: the first answer, how the second request fares
Shelves ==
    {[probe |-> p, bulk |-> "ok", failure |-> NotFound, entries_key |-> e, stock |-> Stock(n)] :
        p \in SizeAnswers, e \in BOOLEAN, n \in 0..MaxStock}
    \cup {[probe |-> p, bulk |-> "fails", failure |-> f, entries_key |-> TRUE, stock |-> Stock(n)] :
        p \in SizeAnswers, f \in {RequestError, NotFound, Garbled}, n \in {MaxStock}}

InitFetchEditions ==
    /\ pc = "fetch"
    /\ \E m \in {1, 2, DefaultMaxLimit} : edition_call = [work_key |-> "OL1W", max_limit |-> m]
    /\ \E shelf \in Shelves : openlibrary = [editions |-> [w \in {"OL1W"} |-> shelf]]
    /\ fetched = Pending
    /\ calls = <<>>
    /\ name_refs = Unused /\ names_found = Unused
    /\ FunctionsUnused
    /\ DriverUnused

FetchAllEditions ==
    /\ pc = "fetch"
    /\ fetched' = Returned(fetch_all_editions(openlibrary.editions[edition_call.work_key],
                                              edition_call.work_key,
                                              edition_call.max_limit).entries)
    /\ calls' = calls \o fetch_all_editions(openlibrary.editions[edition_call.work_key],
                                            edition_call.work_key,
                                            edition_call.max_limit).calls
    /\ pc' = "fetched"
    /\ UNCHANGED <<functionVars, openlibrary, name_refs, names_found, edition_call,
                   driverVars>>

NextFetchEditions == FetchAllEditions

SpecFetchEditions == InitFetchEditions /\ [][NextFetchEditions]_vars

(***************************************************************************)
(* Properties of the edition fetcher                                       *)
(***************************************************************************)
\* the edition count that the first answer reports: -1 when it reports none
ReportedCount ==
    LET p == openlibrary.editions[edition_call.work_key].probe
    IN  IF p.status = 200 /\ "json" \in DOMAIN p /\ p.json.size \notin {Absent, Null}
        THEN p.json.size.v ELSE -1

\* C18: the first request carries no limit; a second request is sent only after a
\* count above zero and asks for the smaller of the count and max_limit; a count
\* of zero gives no second request and an empty result
C18_ProbeThenCappedFetch ==
    pc = "fetched" =>
        /\ Len(calls) \in {1, 2}
        /\ calls[1] = [endpoint |-> "editions", key |-> edition_call.work_key, limit |-> NoneVal]
        /\ ReportedCount = 0 => Len(calls) = 1 /\ fetched = Returned(<<>>)
        /\ ReportedCount > 0 => Len(calls) = 2
        /\ Len(calls) = 2 =>
               /\ ReportedCount > 0
               /\ calls[2].key = edition_call.work_key
               /\ calls[2].limit.v <= edition_call.max_limit
               /\ calls[2].limit.v <= ReportedCount
               /\ calls[2].limit.v \in {edition_call.max_limit, ReportedCount}

\* three editions reported and a ceiling of two: the second request asks for two
C18_Witness ==
    /\ pc = "fetched"
    /\ ReportedCount = 3
    /\ edition_call.max_limit = 2
    /\ Len(calls) = 2 /\ calls[2].limit.v = 2
    /\ fetched.value = Stock(2)

(***************************************************************************)
(* _fetch_title_and_author_by_isbn, _fetch_author_name_by_key              *)
(***************************************************************************)
\* key.replace("/authors/", "") on a key given as its path segments
AuthorKeyOf(path) == SelectSeq(path, LAMBDA seg : seg # "/authors/")[1]

\* response.json().get("name") of the author record; raises when the request fails
\* or the body is not JSON
_fetch_author_name_by_key(answer) ==
    IF answer.status # 200 \/ ~Decodes(answer) THEN Raised("RequestException")
    ELSE Returned(IF answer.name = Absent THEN NoneVal ELSE answer.name)

\* the lookup after the ISBN record was read: the second request and the pair
PairFromRecord(lib, isbn, record) ==
    IF record.authors = Absent
    THEN [out |-> Raised("TypeError"), requests |-> <<IsbnRequest(isbn)>>]
    ELSE IF Len(record.authors.v) = 0
    THEN [out |-> Raised("IndexError"), requests |-> <<IsbnRequest(isbn)>>]
    ELSE [out |-> IF _fetch_author_name_by_key(
                        lib.authors[AuthorKeyOf(record.authors.v[1])]).kind = "raise"
                  THEN Raised("RequestException")
                  ELSE Returned(<<IF record.title = Absent THEN NoneVal ELSE record.title,
                                  _fetch_author_name_by_key(
                                      lib.authors[AuthorKeyOf(record.authors.v[1])]).value>>),
          requests |-> <<IsbnRequest(isbn), AuthorRequest(AuthorKeyOf(record.authors.v[1]))>>]

\* Returned(<<title, author name>>) or Raised, and the requests sent
_fetch_title_and_author_by_isbn(lib, isbn) ==
    IF ~Answered(lib.isbn[isbn])
    THEN [out |-> Raised("RequestException"), requests |-> <<IsbnRequest(isbn)>>]
    ELSE PairFromRecord(lib, isbn, lib.isbn[isbn].json)

(***************************************************************************)
(* enrich_with_openlibrary                                                 *)
(*                                                                         *)
(* The local variables travel in a record st: metadata, requests (the      *)
(* requests sent so far), found (the variable works), work_keys,           *)
(* all_editions, earliest_edition, caught (the exception that the outer    *)
(* except clause caught, or "none"), and marks: by_author and              *)
(* sent_by_author (found and the number of requests when the author loop   *)
(* ended),                                                                 *)
(* isbn_step (whether step 2 was entered) and sent_matching (the number    *)
(* of requests when step 3 was reached, -1 before).  work_keys and         *)
(* all_editions are Pending until assigned, then Lst of their list.        *)
(***************************************************************************)
\* truth value of a str or a list (Str, Lst) that may be None
Truthy(x) == x # NoneVal /\ Len(x.v) > 0

\* works and len(works) > 0
HasWorks(found) == found # NoneVal /\ Len(found.v) > 0

\* the local variables before the try statement
LocalsAtStart(m) ==
    [metadata |-> m, requests |-> <<>>, found |-> NoneVal,
     by_author |-> Pending, sent_by_author |-> 0, isbn_step |-> FALSE,
     sent_matching |-> -1,
     work_keys |-> Pending, all_editions |-> Pending, earliest_edition |-> Pending,
     caught |-> "none"]

\* the assignment of works after a call of the matcher
Assigned(st, call) == [st EXCEPT !.found = call.works, !.requests = @ \o call.requests]

RECURSIVE TryAuthors(_, _, _, _)
\* lines 373-378 for author i, without the break
TriedAuthorNoBreak(lib, m, i, st, call) == TryAuthors(lib, m, i + 1, Assigned(st, call))

\* lines 373-378 for author i
TriedAuthor(lib, m, i, st, call) ==
    IF HasWorks(call.works) THEN Assigned(st, call)
    ELSE TryAuthors(lib, m, i + 1, Assigned(st, call))

\* step 1 from author i on
TryAuthors(lib, m, i, st) ==
    IF i > Len(m.author.v) THEN st
    ELSE TriedAuthor(lib, m, i, st, MatchCall(lib, m.title.v, m.author.v[i]))

\* lines 386-390 with the two if statements in the other order
CollectIsbnsTenFirst(b3) ==
    (IF Truthy(b3.isbn_10) THEN b3.isbn_10.v ELSE <<>>)
    \o (IF Truthy(b3.isbn_13) THEN b3.isbn_13.v ELSE <<>>)

\* lines 386-390
CollectIsbns(b3) ==
    (IF Truthy(b3.isbn_13) THEN b3.isbn_13.v ELSE <<>>)
    \o (IF Truthy(b3.isbn_10) THEN b3.isbn_10.v ELSE <<>>)

RECURSIVE TryIsbns(_, _, _, _)
\* lines 398-408 for ISBN i, without the break
MatchedPairNoBreak(lib, isbns, i, st, call) == TryIsbns(lib, isbns, i + 1, Assigned(st, call))

\* lines 398-408 for ISBN i
MatchedPair(lib, isbns, i, st, call) ==
    IF HasWorks(call.works) THEN Assigned(st, call)
    ELSE TryIsbns(lib, isbns, i + 1, Assigned(st, call))

\* the lookup of ISBN i raised, with no except clause in the loop: the outer one
\* ends the resolution
IsbnRaiseEnds(lib, isbns, i, st) == [st EXCEPT !.caught = "RequestException"]

\* the lookup of ISBN i raised, and the except clause of line 409 passed over it
IsbnExcept(lib, isbns, i, st) == TryIsbns(lib, isbns, i + 1, st)

\* lines 394-411 for ISBN i, after its lookup, with the title and the author of
\* the lookup stored on the entry and not in local variables
LookedUpOntoEntry(lib, isbns, i, st, lookup) ==
    IF lookup.out.kind = "raise"
    THEN IsbnExcept(lib, isbns, i, [st EXCEPT !.requests = @ \o lookup.requests])
    ELSE IF Truthy(lookup.out.value[1]) /\ Truthy(lookup.out.value[2])
    THEN MatchedPair(lib, isbns, i,
                     [st EXCEPT !.requests = @ \o lookup.requests,
                                !.metadata.title = lookup.out.value[1],
                                !.metadata.author = Lst(<<lookup.out.value[2].v>>)],
                     MatchCall(lib, lookup.out.value[1].v, lookup.out.value[2].v))
    ELSE TryIsbns(lib, isbns, i + 1, [st EXCEPT !.requests = @ \o lookup.requests])

\* lines 394-411 for ISBN i, after its lookup
LookedUp(lib, isbns, i, st, lookup) ==
    IF lookup.out.kind = "raise"
    THEN IsbnExcept(lib, isbns, i, [st EXCEPT !.requests = @ \o lookup.requests])
    ELSE IF Truthy(lookup.out.value[1]) /\ Truthy(lookup.out.value[2])
    THEN MatchedPair(lib, isbns, i, [st EXCEPT !.requests = @ \o lookup.requests],
                     MatchCall(lib, lookup.out.value[1].v, lookup.out.value[2].v))
    ELSE TryIsbns(lib, isbns, i + 1, [st EXCEPT !.requests = @ \o lookup.requests])

\* step 2 from ISBN i on
TryIsbns(lib, isbns, i, st) ==
    IF i > Len(isbns) THEN st
    ELSE LookedUp(lib, isbns, i, st, _fetch_title_and_author_by_isbn(lib, isbns[i]))

\* edition.get(field): None when the key is absent or its value null
FieldOf(x) == IF x \in {Absent, Null} THEN NoneVal ELSE x

\* BookMetadata(...) of lines 446-474 with the ISBN lists taken as they are
OriginalVersionAsListed(e, now) ==
    [translator |-> NoneVal,
     isbn_13 |-> FieldOf(e.isbn_13),
     isbn_10 |-> FieldOf(e.isbn_10),
     publication_date |-> IF e.publish_date \in {Absent, Null} THEN NoneVal
                          ELSE ParsedTable[now][e.publish_date],
     status |-> NoneVal,
     publisher |-> FieldOf(e.publishers)]

\* BookMetadata(...) of lines 446-474
OriginalVersion(e, now) ==
    [translator |-> NoneVal,
     isbn_13 |-> IF Truthy(FieldOf(e.isbn_13)) THEN e.isbn_13 ELSE NoneVal,
     isbn_10 |-> IF Truthy(FieldOf(e.isbn_10)) THEN e.isbn_10 ELSE NoneVal,
     publication_date |-> IF e.publish_date \in {Absent, Null} THEN NoneVal
                          ELSE ParsedTable[now][e.publish_date],
     status |-> NoneVal,
     publisher |-> FieldOf(e.publishers)]

\* lines 444-481, with original_version_metadata filled from the first edition when
\* the selector returns None
FillOriginalAlways(st, now, e) ==
    [st EXCEPT !.earliest_edition = e,
               !.metadata.original_version_metadata =
                   OriginalVersion(IF e = NoneVal THEN st.all_editions.v[1] ELSE e, now)]

\* lines 444-481
FillOriginal(st, now, e) ==
    IF e = NoneVal THEN [st EXCEPT !.earliest_edition = NoneVal]
    ELSE [st EXCEPT !.earliest_edition = e,
                    !.metadata.original_version_metadata = OriginalVersion(e, now)]

\* step 5
SelectEdition(st, now) ==
    IF Len(st.all_editions.v) = 0 THEN st
    ELSE FillOriginal(st, now,
                      find_edition_with_earliest_publication(st.all_editions.v, now))

RECURSIVE FetchEditionsOf(_, _, _, _)
\* lines 426-427 for work key i, with the loop left at a work that gave no edition
FetchedEditionsUntilEmpty(lib, keys, i, st, got) ==
    IF Len(got.entries) = 0 THEN [st EXCEPT !.requests = @ \o got.calls]
    ELSE FetchEditionsOf(lib, keys, i + 1,
                         [st EXCEPT !.all_editions = Lst(@.v \o got.entries),
                                    !.requests = @ \o got.calls])

\* lines 426-427 for work key i
FetchedEditions(lib, keys, i, st, got) ==
    FetchEditionsOf(lib, keys, i + 1,
                    [st EXCEPT !.all_editions = Lst(@.v \o got.entries),
                               !.requests = @ \o got.calls])

\* step 4 from work key i on
FetchEditionsOf(lib, keys, i, st) ==
    IF i > Len(keys) THEN st
    ELSE FetchedEditions(lib, keys, i, st,
                         fetch_all_editions(lib.editions[keys[i]], keys[i], DefaultMaxLimit))

\* lines 415-485, after the call of find_work_keys_with_earliest_publication_year
WithWorkKeys(lib, now, st, keys) ==
    IF keys.kind = "raise" THEN [st EXCEPT !.caught = keys.exc]
    ELSE IF Len(keys.value) = 0
    THEN [st EXCEPT !.work_keys = Lst(keys.value), !.all_editions = Lst(<<>>)]
    ELSE SelectEdition(FetchEditionsOf(lib, keys.value, 1,
                           [st EXCEPT !.work_keys = Lst(keys.value),
                                      !.all_editions = Lst(<<>>)]),
                       now)

\* steps 3 to 5
SelectWorks(lib, now, st) ==
    IF ~HasWorks(st.found) THEN [st EXCEPT !.sent_matching = Len(st.requests)]
    ELSE WithWorkKeys(lib, now, [st EXCEPT !.sent_matching = Len(st.requests)],
                      find_work_keys_with_earliest_publication_year(st.found.v))

\* step 2, with the AttributeError of line 387 on an entry without books3_version_metadata
IsbnStep(lib, now, st) ==
    IF st.metadata.books3_version_metadata = NoneVal
    THEN [st EXCEPT !.isbn_step = TRUE, !.caught = "AttributeError"]
    ELSE SelectWorks(lib, now,
                     TryIsbns(lib, CollectIsbns(st.metadata.books3_version_metadata), 1,
                              [st EXCEPT !.isbn_step = TRUE]))

\* line 384, with the state of the author loop kept in by_author and sent_by_author
AfterAuthors(lib, now, st) ==
    IF HasWorks(st.found)
    THEN SelectWorks(lib, now, [st EXCEPT !.by_author = st.found,
                                          !.sent_by_author = Len(st.requests)])
    ELSE IsbnStep(lib, now, [st EXCEPT !.by_author = st.found,
                                       !.sent_by_author = Len(st.requests)])

\* the local variables when the function returns st.metadata
enrich_with_openlibrary(m, lib, now) ==
    IF ~Truthy(m.title) \/ ~Truthy(m.author) THEN LocalsAtStart(m)
    ELSE AfterAuthors(lib, now, TryAuthors(lib, m, 1, LocalsAtStart(m)))

(***************************************************************************)
(* One entry resolved against one catalog                                  *)
(***************************************************************************)
BookTitle == <<"T", "h">>

AuthorA == <<"T", "a">>

AuthorB == <<"T", "b">>

\* the author that the catalog names for the ISBNs of the book
AuthorJ == <<"J", "a">>

Isbn1 == "9780000000001"

Isbn2 == "0000000002"

\* a BookMetadata object that carries ISBNs only
MkBookMetadata(isbn_13, isbn_10) ==
    [translator |-> NoneVal, isbn_13 |-> isbn_13, isbn_10 |-> isbn_10,
     publication_date |-> NoneVal, status |-> NoneVal, publisher |-> NoneVal]

\* an OverallBookMetadata object as extract_books3_metadata.py writes it
MkBook(name, title, author, b3) ==
    [filename |-> Str(name), title |-> title, subtitle |-> NoneVal, series |-> NoneVal,
     author |-> author,
     books3_version_metadata |-> b3, original_version_metadata |-> NoneVal]

AuthorLists ==
    {NoneVal, Lst(<<>>), Lst(<<AuthorA>>), Lst(<<AuthorA, AuthorB>>), Lst(<<AuthorB, AuthorA>>)}

IsbnHoldings ==
    {NoneVal,
     MkBookMetadata(NoneVal, NoneVal),
     MkBookMetadata(Lst(<<Isbn1>>), NoneVal),
     MkBookMetadata(Lst(<<Isbn1>>), Lst(<<Isbn2>>)),
     MkBookMetadata(Lst(<<Isbn2, Isbn1>>), Lst(<<>>))}

Books ==
    {MkBook("a.epub", Str(BookTitle), a, b) : a \in AuthorLists, b \in IsbnHoldings}
    \cup {MkBook("a.epub", t, Lst(<<AuthorA>>), MkBookMetadata(Lst(<<Isbn1>>), NoneVal)) :
            t \in {NoneVal, Str(<<>>)}}

\* the queries that the entries above can lead to
Queries == {<<BookTitle, a>> : a \in {AuthorA, AuthorB, AuthorJ}}

\* the author records of the catalog; the record of OL3A may be out of reach
AuthorRecords ==
    {[k \in {"OL1A", "OL2A", "OL3A"} |->
        CASE k = "OL1A" -> AuthorData(Str(AuthorA), Absent)
          [] k = "OL2A" -> AuthorData(Str(AuthorB), Absent)
          [] k = "OL3A" -> third] :
     third \in {AuthorData(Str(AuthorJ), Absent), RequestError}}

\* what the search endpoint may answer to each query: works 1 and 2 are by
\* AuthorA and AuthorB, works 3 and 4 by AuthorJ
SearchAnswers ==
    {[q \in Queries |->
        CASE q[2] = AuthorA -> a
          [] q[2] = AuthorB -> b
          [] q[2] = AuthorJ -> j] :
     a \in {RequestError,
            SearchData(<<MkWork(2, Str(BookTitle), Lst(<<"OL2A">>), Num(2001))>>),
            SearchData(<<MkWork(1, Str(BookTitle), Lst(<<"OL1A">>), Num(1997))>>)},
     b \in {SearchData(<<>>),
            SearchData(<<MkWork(2, Str(<<"t", "H">>), Lst(<<"OL2A">>), Num(2001))>>)},
     j \in {Garbled,
            SearchData(<<MkWork(3, Str(BookTitle), Lst(<<"OL3A">>), Num(1997)),
                         MkWork(4, Str(BookTitle), Lst(<<"OL3A">>), Num(1997))>>),
            SearchData(<<MkWork(3, Str(BookTitle), Lst(<<"OL3A">>), Absent)>>),
            SearchData(<<MkWork(3, Str(BookTitle), Lst(<<"OL3A">>), Null),
                         MkWork(4, Str(BookTitle), Lst(<<"OL3A">>), Num(1997))>>)}}

IsbnRecord(title, authors) == [status |-> 200, json |-> [title |-> title, authors |-> authors]]

IsbnAnswers ==
    {[i \in {Isbn1, Isbn2} |-> IF i = Isbn1 THEN one ELSE two] :
     one \in {Garbled,
              IsbnRecord(Str(BookTitle), Absent),
              IsbnRecord(Absent, Lst(<< <<"/authors/", "OL3A">> >>)),
              IsbnRecord(Str(BookTitle), Lst(<< <<"/authors/", "OL3A">> >>))},
     two \in {RequestError,
              IsbnRecord(Str(BookTitle), Lst(<< <<"/authors/", "OL3A">> >>))}}

\* a work with one edition e on its shelf
ShelfOf(e) ==
    [probe |-> [status |-> 200, json |-> [size |-> Num(1)]], bulk |-> "ok",
     failure |-> NotFound, entries_key |-> TRUE, stock |-> <<e>>]

\* a work with the editions of stock on its shelf
ShelfWith(stock) ==
    [probe |-> [status |-> 200, json |-> [size |-> Num(Len(stock))]], bulk |-> "ok",
     failure |-> NotFound, entries_key |-> TRUE, stock |-> stock]

\* a work with no edition
EmptyShelf ==
    [probe |-> [status |-> 200, json |-> [size |-> Num(0)]], bulk |-> "ok",
     failure |-> NotFound, entries_key |-> TRUE, stock |-> <<>>]

\* a work whose first, or second, editions request fails
FailingShelf(e, second) ==
    [probe |-> IF second THEN [status |-> 200, json |-> [size |-> Num(1)]] ELSE RequestError,
     bulk |-> "fails", failure |-> Garbled, entries_key |-> TRUE, stock |-> <<e>>]

PublishedBy == [publishers |-> Lst(<<"P">>), isbn_13 |-> Lst(<<"978">>), isbn_10 |-> Absent]

\* three editions of one work: the earliest year without publisher and ISBN, the
\* same year with a publisher, an ISBN-13 and an empty ISBN-10 list, a later year
ThreeEditions ==
    <<MkEdition(1, Str(<<"1", "9", "9", "9">>),
                [publishers |-> Absent, isbn_13 |-> Absent, isbn_10 |-> Absent]),
      MkEdition(2, Str(<<"1", "9", "9", "9">>),
                [publishers |-> Lst(<<"P">>), isbn_13 |-> Lst(<<"978">>),
                 isbn_10 |-> Lst(<<>>)]),
      MkEdition(3, Str(<<"2", "0", "0", "1">>), PublishedBy)>>

ShelfKey(i) == Replace(WorkKey(i), WorksPrefix)

EditionShelves ==
    {[k \in {ShelfKey(i) : i \in 1..4} |->
        CASE k = ShelfKey(1) -> one
          [] k = ShelfKey(2) -> two
          [] k = ShelfKey(3) -> three
          [] k = ShelfKey(4) -> four] :
     one \in {FailingShelf(MkEdition(1, Str(<<"1", "9", "9", "9">>), PublishedBy), FALSE),
              ShelfOf(MkEdition(1, Str(<<"1", "9", "9", "9">>), PublishedBy)),
              ShelfWith(ThreeEditions)},
     two \in {EmptyShelf,
              ShelfOf(MkEdition(2, Str(<<"2", "0", "0", "1">>), PublishedBy))},
     three \in {FailingShelf(MkEdition(3, Str(<<"2", "0", "0", "1">>), PublishedBy), FALSE),
                ShelfOf(MkEdition(3, Str(<<"x">>), PublishedBy)),
                ShelfOf(MkEdition(3, Str(<<"2", "0", "0", "1">>), PublishedBy))},
     four \in {FailingShelf(MkEdition(4, Str(<<"1", "9", "9", "9">>), PublishedBy), TRUE),
               ShelfOf(MkEdition(4, Str(<<"1", "9", "9", "9">>), PublishedBy))}}

InitEnrich ==
    /\ pc = "enrich"
    /\ today = EditionsToday
    /\ metadata \in Books
    /\ \E s \in SearchAnswers, a \in AuthorRecords, i \in IsbnAnswers, e \in EditionShelves :
           openlibrary = [search |-> s, authors |-> a, isbn |-> i, editions |-> e]
    /\ resolution = Pending
    /\ calls = <<>>
    /\ edtf_date = Unused /\ parsed = Unused
    /\ editions = Unused /\ earliest_editions = Unused /\ edition_result = Unused
    /\ works = Unused /\ work_keys = Unused
    /\ query = Unused /\ catalog = Unused /\ works_filtered = Unused
    /\ name_refs = Unused /\ names_found = Unused
    /\ edition_call = Unused /\ fetched = Unused
    /\ namespace = Unused /\ input_file = Unused /\ output_file = Unused /\ main_run = Unused

\* the return of the function with the local variables st
EnrichReturns(st) ==
    /\ resolution' = st
    /\ metadata' = st.metadata
    /\ calls' = calls \o st.requests

EnrichWithOpenlibrary ==
    /\ pc = "enrich"
    /\ EnrichReturns(enrich_with_openlibrary(metadata, openlibrary, today))
    /\ pc' = "enriched"
    /\ UNCHANGED <<functionVars, openlibrary, name_refs, names_found, edition_call, fetched,
                   namespace, input_file, output_file, main_run>>

NextEnrich == EnrichWithOpenlibrary

SpecEnrich == InitEnrich /\ [][NextEnrich]_vars

(***************************************************************************)
(* Properties of the resolution of one entry                               *)
(***************************************************************************)
\* the entry has a title and at least one author, and the function has returned
Resolved == pc = "enriched" /\ Truthy(metadata.title) /\ Truthy(metadata.author)

\* the match set of the entry's title and its author i: NoneVal when it is empty
MatchOfAuthor(i) ==
    fetch_and_filter_works(metadata.title.v, metadata.author.v[i],
                           CatalogFor(openlibrary, metadata.title.v, metadata.author.v[i]))

\* the search requests among the first n requests
SearchesAmong(n) == SelectSeq(SubSeq(calls, 1, n), LAMBDA r : r.endpoint = "search")

\* the search requests of the author loop
AuthorSearches == SearchesAmong(resolution.sent_by_author)

\* C13: the author loop asks for the authors in the order of the entry, one search
\* each; every author before the last one asked has an empty match set; the loop
\* stops at the first author with a non-empty match set, whose works are the ones
\* that the later steps use, and otherwise runs through all authors
C13_FirstMatchingAuthorWins ==
    Resolved =>
        /\ Len(AuthorSearches) \in 1..Len(metadata.author.v)
        /\ \A k \in DOMAIN AuthorSearches :
               /\ AuthorSearches[k] = SearchRequest(metadata.title.v, metadata.author.v[k])
               /\ k < Len(AuthorSearches) => ~HasWorks(MatchOfAuthor(k))
        /\ resolution.by_author = MatchOfAuthor(Len(AuthorSearches))
        /\ ~HasWorks(resolution.by_author) => Len(AuthorSearches) = Len(metadata.author.v)
        /\ HasWorks(resolution.by_author) =>
               /\ resolution.found = resolution.by_author
               /\ resolution.sent_matching = resolution.sent_by_author
               /\ resolution.caught = "none" =>
                      Returned(resolution.work_keys.v) =
                          find_work_keys_with_earliest_publication_year(resolution.by_author.v)

\* both authors have a match set, and only the first one was asked for
C13_Witness ==
    /\ Resolved
    /\ metadata.author = Lst(<<AuthorB, AuthorA>>)
    /\ HasWorks(MatchOfAuthor(1)) /\ HasWorks(MatchOfAuthor(2))
    /\ MatchOfAuthor(1) # MatchOfAuthor(2)
    /\ SelectSeq(calls, LAMBDA r : r.endpoint = "search")
           = <<SearchRequest(BookTitle, AuthorB)>>
    /\ resolution.found = MatchOfAuthor(1)
    /\ metadata.original_version_metadata # NoneVal

\* the ISBNs of the entry: isbn_13 before isbn_10
EntryIsbns ==
    IF metadata.books3_version_metadata = NoneVal THEN <<>>
    ELSE (IF metadata.books3_version_metadata.isbn_13 = NoneVal THEN <<>>
          ELSE metadata.books3_version_metadata.isbn_13.v)
         \o (IF metadata.books3_version_metadata.isbn_10 = NoneVal THEN <<>>
             ELSE metadata.books3_version_metadata.isbn_10.v)

\* the title and the author that the catalog gives for an ISBN are both there
PairOfIsbn(isbn) ==
    /\ _fetch_title_and_author_by_isbn(openlibrary, isbn).out.kind = "return"
    /\ Truthy(_fetch_title_and_author_by_isbn(openlibrary, isbn).out.value[1])
    /\ Truthy(_fetch_title_and_author_by_isbn(openlibrary, isbn).out.value[2])

\* the match set of the title and the author of an ISBN: NoneVal when it is empty
MatchOfIsbn(isbn) ==
    IF ~PairOfIsbn(isbn) THEN NoneVal
    ELSE MatchCall(openlibrary,
                   _fetch_title_and_author_by_isbn(openlibrary, isbn).out.value[1].v,
                   _fetch_title_and_author_by_isbn(openlibrary, isbn).out.value[2].v).works

\* the requests for one ISBN: its lookup, then the match of its title and author
RequestsOfIsbn(isbn) ==
    _fetch_title_and_author_by_isbn(openlibrary, isbn).requests
    \o (IF ~PairOfIsbn(isbn) THEN <<>>
        ELSE MatchCall(openlibrary,
                       _fetch_title_and_author_by_isbn(openlibrary, isbn).out.value[1].v,
                       _fetch_title_and_author_by_isbn(openlibrary, isbn).out.value[2].v).requests)

RECURSIVE RequestsOfIsbns(_, _)
\* the requests for the first n ISBNs of a list, one ISBN after the other
RequestsOfIsbns(isbns, n) ==
    IF n = 0 THEN <<>> ELSE RequestsOfIsbns(isbns, n - 1) \o RequestsOfIsbn(isbns[n])

\* the ISBNs looked up, in the order of their requests
IsbnsLookedUp ==
    LET asked == SelectSeq(calls, LAMBDA r : r.endpoint = "isbn")
    IN  [k \in DOMAIN asked |-> asked[k].key]

\* C12: ISBNs are looked up only when no author of the entry gave a match; they are
\* taken in the order isbn_13 then isbn_10, each one's lookup and match finished
\* before the next one starts; every ISBN before the last one looked up has an
\* empty match set; the first ISBN with a non-empty match set ends the loop and
\* its works are the ones used; otherwise every ISBN is looked up and no works
\* are found
C12_IsbnFallbackInOrder ==
    Resolved =>
        /\ resolution.isbn_step = ~HasWorks(resolution.by_author)
        /\ HasWorks(resolution.by_author) => IsbnsLookedUp = <<>>
        /\ Len(IsbnsLookedUp) <= Len(EntryIsbns)
        /\ IsbnsLookedUp = SubSeq(EntryIsbns, 1, Len(IsbnsLookedUp))
        /\ \A k \in DOMAIN IsbnsLookedUp :
               k < Len(IsbnsLookedUp) => ~HasWorks(MatchOfIsbn(EntryIsbns[k]))
        /\ resolution.isbn_step /\ resolution.caught # "AttributeError" =>
               /\ SubSeq(calls, resolution.sent_by_author + 1, resolution.sent_matching)
                      = RequestsOfIsbns(EntryIsbns, Len(IsbnsLookedUp))
               /\ IF \E k \in DOMAIN EntryIsbns : HasWorks(MatchOfIsbn(EntryIsbns[k]))
                  THEN /\ IsbnsLookedUp # <<>>
                       /\ resolution.found = MatchOfIsbn(EntryIsbns[Len(IsbnsLookedUp)])
                       /\ HasWorks(resolution.found)
                  ELSE /\ IsbnsLookedUp = EntryIsbns
                       /\ ~HasWorks(resolution.found)

\* no author matched, the first of two ISBNs matched, and the second was not looked up
C12_Witness ==
    /\ Resolved
    /\ ~HasWorks(resolution.by_author)
    /\ EntryIsbns = <<Isbn2, Isbn1>>
    /\ HasWorks(MatchOfIsbn(Isbn2)) /\ HasWorks(MatchOfIsbn(Isbn1))
    /\ IsbnsLookedUp = <<Isbn2>>
    /\ resolution.found = MatchOfIsbn(Isbn2)

\* the requests for the lists of editions, without and with a limit
EditionRequests == SelectSeq(calls, LAMBDA r : r.endpoint = "editions")

\* the first requests for the editions of the works, in the order sent
EditionProbes == SelectSeq(EditionRequests, LAMBDA r : r.limit = NoneVal)

\* the entry leaves the function without original_version_metadata
EndsUnknown == metadata.original_version_metadata = NoneVal

\* C11: the requests of a resolution come in the order of the steps (author
\* matches, then ISBN lookups and matches, then editions); a step that gives
\* nothing (no works, no work keys, no editions, no edition selected) or raises
\* is the last one: nothing is sent after it, the variables of the later steps
\* are never assigned and original_version_metadata stays None; it is set only
\* after works, work keys, editions and a selected edition were all obtained,
\* each from the result of the step before
C11_StagesInOrderAndShortCircuit ==
    Resolved =>
        /\ \A k \in DOMAIN calls :
               /\ k <= resolution.sent_by_author => calls[k].endpoint \in {"search", "authors"}
               /\ calls[k].endpoint = "editions" <=>
                      (resolution.sent_matching >= 0 /\ k > resolution.sent_matching)
        /\ ~HasWorks(resolution.found) \/ resolution.caught # "none" =>
               /\ resolution.work_keys = Pending /\ resolution.all_editions = Pending
               /\ resolution.earliest_edition = Pending
               /\ EditionRequests = <<>>
               /\ EndsUnknown
        /\ HasWorks(resolution.found) /\ resolution.caught = "none" =>
               /\ Returned(resolution.work_keys.v)
                      = find_work_keys_with_earliest_publication_year(resolution.found.v)
               /\ EditionProbes = [k \in DOMAIN resolution.work_keys.v |->
                                      EditionsRequest(resolution.work_keys.v[k], NoneVal)]
               /\ Len(resolution.work_keys.v) = 0 => Len(resolution.all_editions.v) = 0
               /\ IF Len(resolution.all_editions.v) = 0
                  THEN resolution.earliest_edition = Pending /\ EndsUnknown
                  ELSE resolution.earliest_edition =
                           find_edition_with_earliest_publication(resolution.all_editions.v,
                                                                  today)
               /\ resolution.earliest_edition = NoneVal => EndsUnknown
        /\ ~EndsUnknown =>
               /\ HasWorks(resolution.found)
               /\ Len(resolution.work_keys.v) > 0
               /\ Len(resolution.all_editions.v) > 0
               /\ \E k \in DOMAIN resolution.all_editions.v :
                      resolution.earliest_edition = resolution.all_editions.v[k]

\* works were matched but none has a publication year: no work keys, no request for
\* editions, no original version
C11_Witness ==
    /\ Resolved
    /\ HasWorks(resolution.found)
    /\ resolution.work_keys = Lst(<<>>)
    /\ resolution.sent_matching = Len(calls)
    /\ resolution.earliest_edition = Pending
    /\ EndsUnknown

\* an answer that failed in transport (no status 200) or in decoding (no JSON body)
Failed(answer) == ~(answer.status = 200 /\ ("json" \in DOMAIN answer \/ "name" \in DOMAIN answer))

\* the catalog with every failed answer replaced by an answer that holds nothing:
\* a search without works, an author record without names, an ISBN record
\* without a title, a work without editions
Emptied(lib) ==
    [search |-> [q \in DOMAIN lib.search |->
                    IF Failed(lib.search[q]) THEN SearchData(<<>>) ELSE lib.search[q]],
     authors |-> [k \in DOMAIN lib.authors |->
                    IF Failed(lib.authors[k]) THEN AuthorData(Absent, Absent)
                    ELSE lib.authors[k]],
     isbn |-> [i \in DOMAIN lib.isbn |->
                    IF Failed(lib.isbn[i])
                    THEN IsbnRecord(Absent, Lst(<< <<"/authors/", "OL1A">> >>))
                    ELSE lib.isbn[i]],
     editions |-> [w \in DOMAIN lib.editions |->
                    IF Failed(lib.editions[w].probe) THEN EmptyShelf
                    ELSE IF lib.editions[w].bulk # "ok"
                    THEN [lib.editions[w] EXCEPT !.bulk = "ok", !.stock = <<>>]
                    ELSE lib.editions[w]]]

\* the entry as it was given to the function
EntryGiven == [metadata EXCEPT !.original_version_metadata = NoneVal]

\* the function ended with the same variables as the resolution st
SameResolution(st) ==
    /\ metadata = st.metadata
    /\ resolution.found = st.found
    /\ resolution.work_keys = st.work_keys
    /\ resolution.all_editions = st.all_editions
    /\ resolution.earliest_edition = st.earliest_edition

\* C19: a search that fails gives no match and a work whose first or second
\* editions request fails gives no editions; the function returns the entry, and
\* returns it with the result it would have with every failed answer of the
\* catalog replaced by an answer that holds nothing, so that a failure neither
\* ends the resolution nor reaches the caller
C19_FailuresAreEmptyAnswers ==
    pc = "enriched" =>
        /\ \A q \in DOMAIN openlibrary.search :
               Failed(openlibrary.search[q]) =>
                   MatchCall(openlibrary, q[1], q[2]).works = NoneVal
        /\ \A w \in DOMAIN openlibrary.editions :
               Failed(openlibrary.editions[w].probe) \/ openlibrary.editions[w].bulk # "ok" =>
                   fetch_all_editions(openlibrary.editions[w], w, DefaultMaxLimit).entries = <<>>
        /\ resolution.caught \in {"none", "AttributeError", "TypeError"}
        /\ SameResolution(enrich_with_openlibrary(EntryGiven, Emptied(openlibrary), today))

\* the search of the only author and the lookup of the first ISBN failed, and the
\* second ISBN led to the original version
C19_Witness ==
    /\ pc = "enriched"
    /\ metadata.author = Lst(<<AuthorA>>)
    /\ Failed(openlibrary.search[<<BookTitle, AuthorA>>])
    /\ Failed(openlibrary.isbn[Isbn1])
    /\ IsbnsLookedUp = <<Isbn1, Isbn2>>
    /\ ~EndsUnknown

\* an ISBN list of an edition as the entry carries it: None when absent, null or empty
IsbnsCarried(x) ==
    IF x \in {Absent, Null} THEN NoneVal ELSE IF Len(x.v) = 0 THEN NoneVal ELSE x

\* C22: when the function has set original_version_metadata, its fields come from
\* the edition that the selector returned, which is one of the fetched editions:
\* isbn_13 and isbn_10 are that edition's lists, None when the list is missing
\* or empty; publisher is its publishers list; publication_date is what
\* _parse_edtf_date gives for its publish_date; translator and status are None
C22_OriginalFromSelectedEdition ==
    Resolved /\ ~EndsUnknown =>
        /\ \E k \in DOMAIN resolution.all_editions.v :
               resolution.earliest_edition = resolution.all_editions.v[k]
        /\ metadata.original_version_metadata =
               [translator |-> NoneVal,
                isbn_13 |-> IsbnsCarried(resolution.earliest_edition.isbn_13),
                isbn_10 |-> IsbnsCarried(resolution.earliest_edition.isbn_10),
                publication_date |-> ParsedDate(resolution.earliest_edition.publish_date, today),
                status |-> NoneVal,
                publisher |-> IF resolution.earliest_edition.publishers \in {Absent, Null}
                              THEN NoneVal
                              ELSE resolution.earliest_edition.publishers]

\* one matching work with three editions: the earliest year without ISBN, the same
\* year with a publisher and an ISBN, a later year; the original version is the
\* second edition, with its ISBN-13, its publisher, and no ISBN-10
C22_Witness ==
    /\ Resolved
    /\ ~EndsUnknown
    /\ HasWorks(resolution.found)
    /\ Len(resolution.found.v) = 1
    /\ resolution.all_editions = Lst(ThreeEditions)
    /\ resolution.earliest_edition = ThreeEditions[2]
    /\ metadata.original_version_metadata.isbn_13 = Lst(<<"978">>)
    /\ metadata.original_version_metadata.isbn_10 = NoneVal
    /\ metadata.original_version_metadata.publisher = Lst(<<"P">>)
    /\ metadata.original_version_metadata.publication_date = MkDate(1999, 1, 1)
    /\ metadata.original_version_metadata.translator = NoneVal

\* the catalog with every null first_publish_year of a work taken as a missing key
NullYearsAsMissing(lib) ==
    [lib EXCEPT !.search =
        [q \in DOMAIN lib.search |->
            IF Failed(lib.search[q]) THEN lib.search[q]
            ELSE [lib.search[q] EXCEPT !.json.docs =
                     [k \in DOMAIN lib.search[q].json.docs |->
                         IF lib.search[q].json.docs[k].first_publish_year = Null
                         THEN [lib.search[q].json.docs[k] EXCEPT !.first_publish_year = Absent]
                         ELSE lib.search[q].json.docs[k]]]]]

\* C23: a work whose first_publish_year is null is treated as a work without a
\* year: no exception arises from it, and the function returns what it returns
\* when the key is missing, so that the other works of the answer are still
\* candidates for the earliest year
C23_NullYearIsUnknownYear ==
    pc = "enriched" =>
        /\ resolution.caught # "TypeError"
        /\ SameResolution(enrich_with_openlibrary(EntryGiven, NullYearsAsMissing(openlibrary),
                                                  today))

RECURSIVE EditionsOfWorks(_, _)
\* the editions that the catalog gives for the work keys keys[i..], work after work
EditionsOfWorks(keys, i) ==
    IF i > Len(keys) THEN <<>>
    ELSE fetch_all_editions(openlibrary.editions[keys[i]], keys[i], DefaultMaxLimit).entries
         \o EditionsOfWorks(keys, i + 1)

\* C24: once the work keys of the earliest year are known, the editions of every
\* one of them are requested, in the order of the keys, whether or not the
\* request for an earlier key failed or gave nothing; the list given to the
\* edition selector is the concatenation, in that order, of what each work gave
C24_EditionsOfAllTiedWorks ==
    Resolved /\ resolution.work_keys # Pending =>
        /\ [k \in DOMAIN EditionProbes |-> EditionProbes[k].key] = resolution.work_keys.v
        /\ resolution.all_editions = Lst(EditionsOfWorks(resolution.work_keys.v, 1))
        /\ resolution.earliest_edition # Pending =>
               resolution.earliest_edition =
                   find_edition_with_earliest_publication(
                       EditionsOfWorks(resolution.work_keys.v, 1), today)

\* two works tied at the earliest year: the request for the editions of the first
\* fails, the editions of the second are fetched and give the original version
C24_Witness ==
    /\ Resolved
    /\ resolution.work_keys = Lst(<<ShelfKey(3), ShelfKey(4)>>)
    /\ Failed(openlibrary.editions[ShelfKey(3)].probe)
    /\ Len(EditionProbes) = 2
    /\ resolution.all_editions = Lst(openlibrary.editions[ShelfKey(4)].stock)
    /\ resolution.earliest_edition = openlibrary.editions[ShelfKey(4)].stock[1]
    /\ ~EndsUnknown

\* the ISBN-13 values and the ISBN-10 values of the entry
EntryIsbn13 ==
    IF metadata.books3_version_metadata.isbn_13 = NoneVal THEN {}
    ELSE {metadata.books3_version_metadata.isbn_13.v[k] :
              k \in DOMAIN metadata.books3_version_metadata.isbn_13.v}

EntryIsbn10 ==
    IF metadata.books3_version_metadata.isbn_10 = NoneVal THEN {}
    ELSE {metadata.books3_version_metadata.isbn_10.v[k] :
              k \in DOMAIN metadata.books3_version_metadata.isbn_10.v}

\* the two lists, None taken as the empty list
EntryIsbn13_List ==
    IF metadata.books3_version_metadata.isbn_13 = NoneVal THEN <<>>
    ELSE metadata.books3_version_metadata.isbn_13.v

EntryIsbn10_List ==
    IF metadata.books3_version_metadata.isbn_10 = NoneVal THEN <<>>
    ELSE metadata.books3_version_metadata.isbn_10.v

\* the lookup of the ISBN raises
LookupRaises(isbn) == _fetch_title_and_author_by_isbn(openlibrary, isbn).out.kind = "raise"

\* the lookup of the ISBN returns without a title or without an author
LookupLacksPair(isbn) == ~LookupRaises(isbn) /\ ~PairOfIsbn(isbn)

\* the title and the author of the ISBN match no work
LookupMatchesNothing(isbn) == PairOfIsbn(isbn) /\ ~HasWorks(MatchOfIsbn(isbn))

\* C25: when the ISBN step runs on an entry that has books3_version_metadata, no
\* ISBN-10 is looked up before an ISBN-13; an ISBN is looked up whenever each ISBN
\* before it raised in its lookup, came back without title or author, or matched
\* no work; and the step always runs to its end: no exception of a lookup is
\* caught by the except clause of the whole resolution
C25_FailedIsbnIsSkipped ==
    Resolved /\ resolution.isbn_step /\ metadata.books3_version_metadata # NoneVal =>
        /\ \A i, j \in DOMAIN IsbnsLookedUp :
               IsbnsLookedUp[i] \in EntryIsbn10 /\ IsbnsLookedUp[j] \in EntryIsbn13 => j < i
        /\ \A k \in 1..(Len(EntryIsbn13_List) + Len(EntryIsbn10_List)) :
               (\A j \in 1..(k - 1) :
                    \/ LookupRaises((EntryIsbn13_List \o EntryIsbn10_List)[j])
                    \/ LookupLacksPair((EntryIsbn13_List \o EntryIsbn10_List)[j])
                    \/ LookupMatchesNothing((EntryIsbn13_List \o EntryIsbn10_List)[j]))
               => /\ k <= Len(IsbnsLookedUp)
                  /\ IsbnsLookedUp[k] = (EntryIsbn13_List \o EntryIsbn10_List)[k]
        /\ resolution.sent_matching >= 0
        /\ resolution.caught \in {"none", "TypeError"}
        /\ resolution.caught = "TypeError" => HasWorks(resolution.found)

\* the first ISBN, an ISBN-13, comes back without a title and is passed over; the
\* second, an ISBN-10, is looked up next and leads to the original version
C25_Witness ==
    /\ Resolved
    /\ resolution.isbn_step
    /\ metadata.books3_version_metadata # NoneVal
    /\ EntryIsbn13 = {Isbn1} /\ EntryIsbn10 = {Isbn2}
    /\ LookupLacksPair(Isbn1)
    /\ IsbnsLookedUp = <<Isbn1, Isbn2>>
    /\ HasWorks(resolution.found)
    /\ ~EndsUnknown

\* C27: the entry that the function returns differs from the entry it was given
\* in original_version_metadata at most: filename, title, subtitle, series,
\* author and books3_version_metadata are the ones given, whether the function
\* returned early, found no match, caught an exception or set the original version
C27_OnlyOriginalVersionChanges ==
    [][EnrichWithOpenlibrary =>
           /\ metadata'.filename = metadata.filename
           /\ metadata'.title = metadata.title
           /\ metadata'.subtitle = metadata.subtitle
           /\ metadata'.series = metadata.series
           /\ metadata'.author = metadata.author
           /\ metadata'.books3_version_metadata = metadata.books3_version_metadata
           /\ DOMAIN metadata' = DOMAIN metadata]_vars

\* the function went through the ISBN lookup, whose title and author differ from
\* the entry's, and set the original version on the entry given
C27_Witness ==
    /\ Resolved
    /\ resolution.isbn_step
    /\ HasWorks(resolution.found)
    /\ ~EndsUnknown
    /\ metadata.author = Lst(<<AuthorA>>)
    /\ metadata = [MkBook("a.epub", Str(BookTitle), Lst(<<AuthorA>>),
                          metadata.books3_version_metadata)
                       EXCEPT !.original_version_metadata =
                                  OriginalVersion(resolution.earliest_edition, today)]

(***************************************************************************)
(* Lines of the input and output files                                     *)
(*                                                                         *)
(* A line is [t |-> "json", v |-> object] when json.loads decodes it to an *)
(* object, and [t |-> "garbage"] when json.loads raises (a line cut short  *)
(* by an interrupted write, an empty line).  A file is NoneVal while it    *)
(* does not exist and Lst of its lines afterwards.                         *)
(***************************************************************************)
GarbageLine == [t |-> "garbage"]

\* None as JSON, and back
JsonOf(x) == IF x = NoneVal THEN Null ELSE x

ObjectOf(x) == IF x = Null THEN NoneVal ELSE x

\* model_dump_json() + "\n" of an OverallBookMetadata object; the two BookMetadata
\* objects are carried as they are
model_dump_json(m) ==
    [t |-> "json",
     v |-> [filename |-> JsonOf(m.filename),
            title |-> JsonOf(m.title),
            subtitle |-> JsonOf(m.subtitle),
            series |-> JsonOf(m.series),
            author |-> JsonOf(m.author),
            books3_version_metadata |-> JsonOf(m.books3_version_metadata),
            original_version_metadata |-> JsonOf(m.original_version_metadata)]]

\* pydantic accepts the decoded object: str or null, list or null
Validates(data) ==
    /\ data.filename.t \in {"str", "null"}
    /\ data.title.t \in {"str", "null"}
    /\ data.author.t \in {"list", "null"}

\* json.loads(line) and OverallBookMetadata(**data) of lines 543-544
ParseLine(line) ==
    IF line.t # "json" THEN Raised("JSONDecodeError")
    ELSE IF ~Validates(line.v) THEN Raised("ValidationError")
    ELSE Returned([filename |-> ObjectOf(line.v.filename),
                   title |-> ObjectOf(line.v.title),
                   subtitle |-> ObjectOf(line.v.subtitle),
                   series |-> ObjectOf(line.v.series),
                   author |-> ObjectOf(line.v.author),
                   books3_version_metadata |-> ObjectOf(line.v.books3_version_metadata),
                   original_version_metadata |-> ObjectOf(line.v.original_version_metadata)])

(***************************************************************************)
(* get_processed_filenames                                                 *)
(***************************************************************************)
\* "filename" in data and data["filename"], for a decoded line
NamesFilename(line) ==
    /\ line.t = "json"
    /\ "filename" \in DOMAIN line.v
    /\ line.v.filename # Null
    /\ line.v.filename.v # ""

get_processed_filenames(file) ==
    IF file = NoneVal THEN {}
    ELSE {file.v[k].v.filename.v : k \in {j \in DOMAIN file.v : NamesFilename(file.v[j])}}

(***************************************************************************)
(* main                                                                    *)
(*                                                                         *)
(* main_run holds the local variables of the run: limit (NoneVal or Num),  *)
(* entries_to_process, the position i of the for loop, the three counters, *)
(* enriched_metadata; and, to state properties, run (the number of the     *)
(* run), at_start (the output file when the run began), passed (the        *)
(* filenames given to enrich_with_openlibrary in this run) and parsed_all  *)
(* (all_entries).                                                          *)
(***************************************************************************)
\* the local variables when main is entered for the n-th time
RunAtStart(n, limit, file) ==
    [run |-> n, limit |-> limit, at_start |-> file,
     parsed_all |-> <<>>, entries_to_process |-> <<>>, i |-> 1,
     skipped_entries |-> 0, processed_entries |-> 0, error_entries |-> 0,
     enriched_metadata |-> NoneVal, passed |-> <<>>]

\* lines 541-549: the entries of the lines that parse
AllEntries(lines) ==
    LET good == SelectSeq(lines, LAMBDA l : ParseLine(l).kind = "return")
    IN  [k \in DOMAIN good |-> ParseLine(good[k]).value]

\* the lines counted in error_entries by line 548
ParseErrors(lines) == Len(SelectSeq(lines, LAMBDA l : ParseLine(l).kind = "raise"))

\* lines 552-554, without the test
EntriesUnfiltered(all_entries, processed_filenames) == all_entries

\* lines 552-554
EntriesToProcess(all_entries, processed_filenames) ==
    SelectSeq(all_entries,
              LAMBDA entry : entry.filename = NoneVal
                             \/ entry.filename.v \notin processed_filenames)

\* lines 566-568
Limited(entries, limit) ==
    IF limit # NoneVal /\ limit.v # 0
    THEN SubSeq(entries, 1, Min(limit.v, Len(entries)))
    ELSE entries

\* open(output_file, "w") in place of "a": the file holds the new line only
WriteTruncating(file, line) == Lst(<<line>>)

\* lines 581-582: open(output_file, "a") and write
AppendLine(file, line) == IF file = NoneVal THEN Lst(<<line>>) ELSE Lst(Append(file.v, line))

(***************************************************************************)
(* Runs of the driver                                                      *)
(***************************************************************************)
\* at most this many lines in the input file
MaxLines == 3

\* at most this many runs of main, one after the other
MaxRuns == 2

\* the files of the corpus; extract_books3_metadata.py writes one line per file
Filenames == {"a.txt", "b.txt"}

\* the line that the extractor writes for a file
ExtractedLine(name) ==
    model_dump_json(MkBook(name, Str(BookTitle), Lst(<<AuthorA>>),
                           MkBookMetadata(NoneVal, NoneVal)))

\* a line that decodes and does not fit the record shape: author is a string
MisfitLine ==
    [t |-> "json",
     v |-> [filename |-> Str("m.txt"), title |-> Str(BookTitle), author |-> Str(AuthorA),
            books3_version_metadata |-> Null, original_version_metadata |-> Null]]

\* the line of a file in which the extractor found no title
UntitledLine ==
    model_dump_json(MkBook("u.txt", NoneVal, Lst(<<AuthorA>>), MkBookMetadata(NoneVal, NoneVal)))

\* a line whose filename is null
NamelessLine ==
    model_dump_json([MkBook("", Str(BookTitle), Lst(<<AuthorA>>),
                            MkBookMetadata(NoneVal, NoneVal))
                        EXCEPT !.filename = NoneVal])

\* the lines of an input file that the extractor wrote and that was damaged since
InputLines == {ExtractedLine(name) : name \in Filenames} \cup {GarbageLine, MisfitLine}

\* the lines of any input file
AnyInputLines == InputLines \cup {UntitledLine, NamelessLine}

\* --limit: not given, 0, or a number of entries
Limits == {NoneVal, Num(0), Num(1)}

\* no file of the corpus has two lines
OncePerFile(lines) ==
    \A j, k \in DOMAIN lines :
        (j # k /\ lines[j] = lines[k]) => lines[j] \in {GarbageLine, MisfitLine}

\* no input file, or a file of at most MaxLines lines of the given kinds
FilesOf(kinds) ==
    {NoneVal}
    \cup {Lst(lines) : lines \in {l \in UNION {[1..n -> kinds] : n \in 0..MaxLines} :
                                     OncePerFile(l)}}

InputFiles == FilesOf(InputLines)

AnyInputFiles == FilesOf(AnyInputLines)

\* a catalog that has the book, and a catalog that is out of reach
DriverCatalogs ==
    {[search |-> [q \in Queries |->
                     IF q[2] = AuthorA
                     THEN SearchData(<<MkWork(1, Str(BookTitle), Lst(<<"OL1A">>), Num(1997))>>)
                     ELSE SearchData(<<>>)],
      authors |-> [k \in {"OL1A", "OL2A", "OL3A"} |-> AuthorData(Str(AuthorA), Absent)],
      isbn |-> [i \in {Isbn1, Isbn2} |-> RequestError],
      editions |-> [w \in {ShelfKey(1)} |->
                       ShelfOf(MkEdition(1, Str(<<"1", "9", "9", "9">>), PublishedBy))]],
     [search |-> [q \in Queries |-> RequestError],
      authors |-> [k \in {"OL1A", "OL2A", "OL3A"} |-> RequestError],
      isbn |-> [i \in {Isbn1, Isbn2} |-> RequestError],
      editions |-> [w \in {ShelfKey(1)} |-> EmptyShelf]]}

\* the module's globals: "as_written" binds neither download_copyright_renewals_data
\* nor load_copyright_renewals_data, which no file defines; "patched" stands for a
\* caller that has put two functions under these names before it calls main
Namespaces == {"as_written", "patched"}

InitMainOn(files) ==
    /\ pc = "main"
    /\ today = EditionsToday
    /\ namespace \in Namespaces
    /\ input_file \in files
    /\ output_file \in {NoneVal, Lst(<<GarbageLine>>)}
    /\ \E limit \in Limits : main_run = RunAtStart(1, limit, output_file)
    /\ edtf_date = Unused /\ parsed = Unused
    /\ editions = Unused /\ earliest_editions = Unused /\ edition_result = Unused
    /\ works = Unused /\ work_keys = Unused
    /\ query = Unused /\ catalog = Unused /\ works_filtered = Unused
    /\ PipelineUnused
    /\ metadata = Unused /\ resolution = Unused

InitMain == InitMainOn(InputFiles)

InitMainAny == InitMainOn(AnyInputFiles)

\* lines 511-513: the two calls raise NameError unless the names are bound
LoadRenewals ==
    /\ pc = "main"
    /\ pc' = IF namespace = "as_written" THEN "raised" ELSE "read"
    /\ UNCHANGED <<functionVars, pipelineVars, metadata, resolution, namespace,
                   input_file, output_file, main_run>>

\* lines 552-568, with all_entries and the parse errors of lines 541-549
Filtered(all_entries, errors, pending) ==
    /\ main_run' = [main_run EXCEPT
                       !.parsed_all = all_entries,
                       !.error_entries = errors,
                       !.skipped_entries = Len(all_entries) - Len(pending),
                       !.entries_to_process = Limited(pending, main_run.limit)]
    /\ pc' = IF Len(pending) = 0 THEN "returned" ELSE "loop"

\* lines 516-568
ReadAndFilter ==
    /\ pc = "read"
    /\ IF input_file = NoneVal
       THEN pc' = "returned" /\ UNCHANGED main_run
       ELSE Filtered(AllEntries(input_file.v), ParseErrors(input_file.v),
                     EntriesToProcess(AllEntries(input_file.v),
                                      get_processed_filenames(output_file)))
    /\ UNCHANGED <<functionVars, pipelineVars, metadata, resolution, namespace,
                   input_file, output_file>>

\* line 578 for the entry at position i
ResolveEntry ==
    /\ pc = "loop"
    /\ main_run.i <= Len(main_run.entries_to_process)
    /\ \E lib \in DriverCatalogs :
           main_run' = [main_run EXCEPT
               !.enriched_metadata =
                   enrich_with_openlibrary(main_run.entries_to_process[main_run.i],
                                           lib, today).metadata,
               !.passed = Append(@, main_run.entries_to_process[main_run.i].filename)]
    /\ pc' = "write"
    /\ UNCHANGED <<functionVars, pipelineVars, metadata, resolution, namespace,
                   input_file, output_file>>

\* lines 581-584: the line is appended
WriteEntry ==
    /\ pc = "write"
    /\ output_file' = AppendLine(output_file, model_dump_json(main_run.enriched_metadata))
    /\ main_run' = [main_run EXCEPT !.processed_entries = @ + 1, !.i = @ + 1,
                                    !.enriched_metadata = NoneVal]
    /\ pc' = "loop"
    /\ UNCHANGED <<functionVars, pipelineVars, metadata, resolution, namespace, input_file>>

\* lines 581 and 586-589: open or write raises, and the entry is counted as an error
WriteFails ==
    /\ pc = "write"
    /\ main_run' = [main_run EXCEPT !.error_entries = @ + 1, !.i = @ + 1,
                                    !.enriched_metadata = NoneVal]
    /\ pc' = "loop"
    /\ UNCHANGED <<functionVars, pipelineVars, metadata, resolution, namespace,
                   input_file, output_file>>

\* lines 593-596: the loop is over
Summary ==
    /\ pc = "loop"
    /\ main_run.i > Len(main_run.entries_to_process)
    /\ pc' = "returned"
    /\ UNCHANGED <<functionVars, pipelineVars, driverVars>>

\* the process is stopped between two statements of the loop
Interrupted ==
    /\ pc \in {"loop", "write"}
    /\ pc' = "killed"
    /\ UNCHANGED <<functionVars, pipelineVars, driverVars>>

\* main is started again on the same input file and the output file as it is
RunAgain ==
    /\ pc \in {"returned", "raised", "killed"}
    /\ main_run.run < MaxRuns
    /\ \E limit \in Limits : main_run' = RunAtStart(main_run.run + 1, limit, output_file)
    /\ pc' = "main"
    /\ UNCHANGED <<functionVars, pipelineVars, metadata, resolution, namespace,
                   input_file, output_file>>

NextMain ==
    \/ LoadRenewals
    \/ ReadAndFilter
    \/ ResolveEntry
    \/ WriteEntry
    \/ WriteFails
    \/ Summary
    \/ Interrupted
    \/ RunAgain

SpecMain == InitMain /\ [][NextMain]_vars

\* the runs of the driver on input files that also hold entries without a title
\* and entries without a filename
SpecMainAny == InitMainAny /\ [][NextMain]_vars

(***************************************************************************)
(* Properties of the driver                                                *)
(***************************************************************************)
\* the lines of a file
LinesOf(file) == IF file = NoneVal THEN <<>> ELSE file.v

\* the filenames of the decodable lines of the output file, in the order of the lines
FilenamesOnFile ==
    LET decodable == SelectSeq(LinesOf(output_file), LAMBDA l : l.t = "json")
    IN  [k \in DOMAIN decodable |-> decodable[k].v.filename]

AppendedInRun ==
    SubSeq(LinesOf(output_file), Len(LinesOf(main_run.at_start)) + 1, Len(LinesOf(output_file)))

\* the entries of this run whose write raised
WritesFailed == main_run.error_entries - ParseErrors(input_file.v)

\* C15: while a run is in its loop and after it, the output file is the file as the
\* run found it followed by one line per entry counted as processed; when an
\* entry is about to be resolved, or has been resolved and not yet written, every
\* entry before it has its line on the file or was counted as an error; the
\* lines carry the filenames of the entries in the order in which they were
\* resolved
C15_OneLineAppendedPerEntry ==
    pc \in {"loop", "write"} =>
        /\ Len(LinesOf(output_file)) >= Len(LinesOf(main_run.at_start))
        /\ SubSeq(LinesOf(output_file), 1, Len(LinesOf(main_run.at_start)))
               = LinesOf(main_run.at_start)
        /\ Len(AppendedInRun) = main_run.processed_entries
        /\ main_run.processed_entries + WritesFailed = main_run.i - 1
        /\ Len(main_run.passed) = IF pc = "write" THEN main_run.i ELSE main_run.i - 1
        /\ \A k \in DOMAIN main_run.passed :
               main_run.passed[k] = main_run.entries_to_process[k].filename
        /\ \A k \in DOMAIN AppendedInRun :
               /\ AppendedInRun[k].t = "json"
               /\ \E j \in k..Len(main_run.passed) :
                      ObjectOf(AppendedInRun[k].v.filename) = main_run.passed[j]
        /\ WritesFailed = 0 =>
               \A k \in DOMAIN AppendedInRun :
                   ObjectOf(AppendedInRun[k].v.filename) = main_run.passed[k]

\* a run that found an undecodable line on the file has appended the line of an
\* entry with its original version and the line of an entry without one
C15_Witness ==
    /\ pc = "loop"
    /\ main_run.at_start = Lst(<<GarbageLine>>)
    /\ Len(LinesOf(output_file)) = 3
    /\ output_file.v[1] = GarbageLine
    /\ output_file.v[2].v.filename = Str("b.txt")
    /\ output_file.v[2].v.original_version_metadata # Null
    /\ output_file.v[3].v.filename = Str("a.txt")
    /\ output_file.v[3].v.original_version_metadata = Null
    /\ main_run.processed_entries = 2

\* a line of the input file that does not decode or does not fit the record shape
Malformed(line) == line \in {GarbageLine, MisfitLine}

\* the filenames of the well-formed input lines that name no file or that are on
\* no decodable line of the output file found by the run, in the order of the input
PendingFilenames ==
    LET named == SelectSeq(LinesOf(main_run.at_start), LAMBDA l : l.t = "json")
        pending == SelectSeq(input_file.v,
                             LAMBDA l : /\ ~Malformed(l)
                                        /\ \/ l.v.filename = Null
                                           \/ \A k \in DOMAIN named :
                                                  named[k].v.filename # l.v.filename)
    IN  [k \in DOMAIN pending |-> ObjectOf(pending[k].v.filename)]

\* a run on an input file that exists has ended, by return or by an exception
MainEnded == pc \in {"returned", "raised"} /\ input_file # NoneVal

\* C16: a run of main on a readable input file ends by returning, and, unless a
\* limit was given, after handing every well-formed entry that was not yet
\* processed to enrich_with_openlibrary, in the order of the input, each one
\* written or counted as an error
C16_MainProcessesEveryPendingEntry ==
    MainEnded =>
        /\ pc = "returned"
        /\ main_run.limit = NoneVal =>
               /\ main_run.passed = PendingFilenames
               /\ main_run.processed_entries + WritesFailed = Len(PendingFilenames)

\* C17: when a run of main has ended, every malformed line of the input is
\* counted in error_entries, none of them has a line in the output, every other
\* line was parsed, and, unless a limit was given, the entries of the other lines
\* that were not yet processed were all handed to enrich_with_openlibrary
C17_MalformedLineSkippedAndCounted ==
    MainEnded =>
        /\ main_run.error_entries >= Len(SelectSeq(input_file.v, Malformed))
        /\ \A k \in DOMAIN AppendedInRun : AppendedInRun[k].v.filename # Str("m.txt")
        /\ Len(main_run.parsed_all) = Len(input_file.v) - Len(SelectSeq(input_file.v, Malformed))
        /\ main_run.limit = NoneVal => main_run.passed = PendingFilenames

\* the entry of a well-formed line has no title or no author
Unsearchable(line) ==
    /\ ~Malformed(line)
    /\ \/ ~Truthy(ParseLine(line).value.title)
       \/ ~Truthy(ParseLine(line).value.author)

\* no write of this run was counted as an error
NoWriteFailed == main_run.error_entries <= ParseErrors(input_file.v)

\* the lines on the output file
LinesWritten == {LinesOf(output_file)[k] : k \in DOMAIN LinesOf(output_file)}

\* C26: for an input entry without a title or without an author,
\* enrich_with_openlibrary sends no request and returns the entry as it is; a
\* run of main that has ended without a limit and without a failed write has
\* the line of that entry on the output file, unchanged; and a run that found
\* the line on the output file did not hand the entry to enrich_with_openlibrary
C26_UnsearchableEntryWrittenThenSkipped ==
    MainEnded =>
        \A k \in DOMAIN input_file.v :
            Unsearchable(input_file.v[k]) =>
                /\ \A lib \in DriverCatalogs :
                       enrich_with_openlibrary(ParseLine(input_file.v[k]).value, lib, today)
                           = LocalsAtStart(ParseLine(input_file.v[k]).value)
                /\ main_run.limit = NoneVal /\ NoWriteFailed =>
                       input_file.v[k] \in LinesWritten
                /\ input_file.v[k] \in {LinesOf(main_run.at_start)[j] :
                                            j \in DOMAIN LinesOf(main_run.at_start)} =>
                       \A j \in DOMAIN main_run.passed :
                           main_run.passed[j] # ParseLine(input_file.v[k]).value.filename

\* a well-formed line whose entry has no filename
Nameless(line) == ~Malformed(line) /\ line.v.filename = Null

\* C28: an entry without a filename is never taken as processed: whatever the
\* output file holds, a run of main that has ended without a limit and without
\* a failed write has handed every such entry of the input to
\* enrich_with_openlibrary and appended one line for each, and has counted none
\* of them as skipped
C28_NamelessEntryResolvedEveryRun ==
    MainEnded =>
        /\ main_run.skipped_entries
               <= Len(SelectSeq(input_file.v, LAMBDA l : ~Malformed(l) /\ ~Nameless(l)))
        /\ main_run.limit = NoneVal /\ NoWriteFailed =>
               /\ Len(SelectSeq(main_run.passed, LAMBDA name : name = NoneVal))
                      = Len(SelectSeq(input_file.v, Nameless))
               /\ Len(SelectSeq(AppendedInRun, Nameless))
                      = Len(SelectSeq(input_file.v, Nameless))

\* C29: a run of main with --limit N that has ended has handed to
\* enrich_with_openlibrary the first min(N, number of pending entries) of the
\* entries left after the processed ones were filtered out, in the order of the
\* input, and no other entry
C29_LimitCountsPendingEntriesOnly ==
    MainEnded /\ main_run.limit # NoneVal =>
        main_run.passed
            = SubSeq(PendingFilenames, 1, Min(main_run.limit.v, Len(PendingFilenames)))

====
